---- MODULE Spec2Model ----
(***************************************************************************)
(* Finance Pro: the transaction classifier (routers/transactions.py) and   *)
(* the reporting aggregator (routers/dashboard.py, routers/reports.py)     *)
(* over the stored categories and transactions (models.py, seed.py),       *)
(* followed by the write handlers of transactions, categories and budgets, *)
(* the CSV import, the API key dependency (auth.py) and the startup seed.  *)
(*                                                                         *)
(* Money is counted in cents: Transaction.amount is Numeric(14, 2), so     *)
(* every amount read from the store has two decimals.  The handlers add    *)
(* these as floats and round each reported figure; the float error of a    *)
(* sum of such amounts stays far below half a cent, so the rounded figure  *)
(* is the exact sum in cents.  Where a handler rounds a quotient or a      *)
(* product the rounding is modelled (RoundHalfEven).                       *)
(***************************************************************************)
EXTENDS Integers, Sequences, FiniteSets, TLC

VARIABLES
    cats,      \* stored Category rows: id -> [name, type, tax_category, parent_id]
    txns,      \* stored Transaction rows in id order:
               \* [id, date, amount, category_id, source, updated_at]
    today,     \* date.today(): [year, month, day]
    req,       \* the request being answered
    resp,      \* its response
    prev,      \* the response to the same request asked before (classifier)
    budgets,   \* stored Budget rows in id order: [id, category_id]
    accounts,  \* stored Account rows in id order: [id, name]
    reports    \* stored Report rows in id order: [id, name]

vars == <<cats, txns, today, req, resp, prev, budgets, accounts, reports>>

\* The tables only the budget, account and report handlers and seed_all write
others == <<budgets, accounts, reports>>

\* Python None of a text column, of an integer column, and "no request/response yet".
NullStr == "<None>"
NullId == -1
None == [kind |-> "none"]

(***************************************************************************)
(* Arithmetic helpers                                                      *)
(***************************************************************************)
Abs(x) == IF x < 0 THEN -x ELSE x

\* Python round(): the integer nearest to num/den, an exact tie going to the
\* even neighbour.  den > 0.
RoundHalfEven(num, den) ==
    LET q == num \div den
        r == num % den
    IN  IF 2 * r < den THEN q
        ELSE IF 2 * r > den THEN q + 1
        ELSE IF q % 2 = 0 THEN q ELSE q + 1

(***************************************************************************)
(* Text                                                                    *)
(***************************************************************************)
LowerChar(c) ==
    CASE c = "A" -> "a" [] c = "B" -> "b" [] c = "C" -> "c" [] c = "D" -> "d"
      [] c = "E" -> "e" [] c = "F" -> "f" [] c = "G" -> "g" [] c = "H" -> "h"
      [] c = "I" -> "i" [] c = "J" -> "j" [] c = "K" -> "k" [] c = "L" -> "l"
      [] c = "M" -> "m" [] c = "N" -> "n" [] c = "O" -> "o" [] c = "P" -> "p"
      [] c = "Q" -> "q" [] c = "R" -> "r" [] c = "S" -> "s" [] c = "T" -> "t"
      [] c = "U" -> "u" [] c = "V" -> "v" [] c = "W" -> "w" [] c = "X" -> "x"
      [] c = "Y" -> "y" [] c = "Z" -> "z" [] OTHER -> c

RECURSIVE Lower(_)
\* str.lower()
Lower(s) ==
    IF Len(s) = 0 THEN ""
    ELSE LowerChar(SubSeq(s, 1, 1)) \o Lower(SubSeq(s, 2, Len(s)))

\* kw in text: kw occurs as a substring of text
Contains(kw, text) ==
    \E i \in 1..(Len(text) - Len(kw) + 1) : SubSeq(text, i, i + Len(kw) - 1) = kw

(***************************************************************************)
(* The classifier's keyword table, in the order the dict literal lists it  *)
(***************************************************************************)
CATEGORY_KEYWORDS ==
<<
    [name |-> "Software & SaaS",
     keywords |-> <<
        "subscription", "saas", "software", "license", "plugin", "slack", "zoom",
        "notion", "github", "gitlab", "figma", "linear", "jira", "confluence",
        "adobe", "microsoft", "google workspace", "dropbox", "hubspot", "salesforce",
        "intercom", "zendesk", "asana", "trello", "monday", "airtable", "clickup",
        "loom", "miro", "1password", "lastpass", "okta", "stripe atlas">>],
    [name |-> "Cloud Infrastructure",
     keywords |-> <<
        "aws", "amazon web services", "gcp", "google cloud", "azure", "digitalocean",
        "heroku", "vercel", "netlify", "cloudflare", "linode", "vultr", "hetzner",
        "ovh", "ec2", "s3", "rds", "lambda", "kubernetes", "k8s", "docker", "cdn",
        "hosting", "server">>],
    [name |-> "Professional Services",
     keywords |-> <<
        "consulting", "consultant", "lawyer", "attorney", "legal", "law firm",
        "accountant", "cpa", "bookkeeping", "contractor", "freelance", "agency",
        "professional service", "advisory", "staffing", "retainer">>],
    [name |-> "Travel & Transportation",
     keywords |-> <<
        "flight", "airline", "united airlines", "delta", "american airlines",
        "southwest", "jetblue", "hotel", "marriott", "hilton", "hyatt", "airbnb",
        "vrbo", "uber", "lyft", "taxi", "train", "amtrak", "rental car",
        "enterprise", "hertz", "avis", "parking", "toll", "transit",
        "transportation", "travel">>],
    [name |-> "Meals & Entertainment",
     keywords |-> <<
        "restaurant", "dining", "lunch", "dinner", "breakfast", "coffee",
        "starbucks", "cafe", "cafeteria", "food", "bar", "pub", "grubhub",
        "doordash", "ubereats", "seamless", "entertainment", "event", "concert",
        "theater", "sports", "team lunch", "client dinner", "client lunch">>],
    [name |-> "Office Supplies",
     keywords |-> <<
        "staples", "office depot", "officemax", "supplies", "stationery", "printer",
        "paper", "pen", "markers", "notebook", "binder", "desk", "chair", "office",
        "whiteboard", "post-it">>],
    [name |-> "Marketing & Advertising",
     keywords |-> <<
        "google ads", "adwords", "facebook ads", "meta ads", "linkedin ads",
        "twitter ads", "advertising", "marketing", "seo", "sem", "social media",
        "campaign", "promotion", "mailchimp", "constant contact", "buffer",
        "hootsuite", "canva", "brand", "public relations", "pr agency">>],
    [name |-> "Insurance",
     keywords |-> <<
        "insurance", "liability", "coverage", "policy", "premium", "workers comp",
        "health insurance", "life insurance", "disability", "business insurance",
        "general liability", "e&o", "errors and omissions">>],
    [name |-> "Rent & Utilities",
     keywords |-> <<
        "rent", "lease", "office space", "coworking", "wework", "regus",
        "electricity", "electric", "water", "gas", "natural gas", "internet",
        "broadband", "phone", "telephone", "utility", "utilities">>],
    [name |-> "Education & Training",
     keywords |-> <<
        "course", "training", "workshop", "conference", "seminar", "book",
        "textbook", "udemy", "coursera", "linkedin learning", "pluralsight",
        "skillshare", "masterclass", "certification", "tuition", "bootcamp",
        "webinar", "education", "learning">>],
    [name |-> "Hardware & Equipment",
     keywords |-> <<
        "laptop", "computer", "macbook", "iphone", "ipad", "monitor", "keyboard",
        "mouse", "headset", "camera", "server hardware", "hard drive", "ssd", "ram",
        "cpu", "gpu", "tablet", "equipment", "hardware", "device", "peripherals",
        "apple store", "best buy", "newegg", "dell", "hp", "lenovo">>],
    [name |-> "Health & Medical",
     keywords |-> <<
        "doctor", "dentist", "medical", "health", "pharmacy", "prescription",
        "hospital", "clinic", "cvs", "walgreens", "rite aid", "vision",
        "optometrist", "chiropractor", "therapy", "counseling", "gym", "fitness">>]
>>

(***************************************************************************)
(* Stored categories                                                       *)
(***************************************************************************)
\* seed.py: the categories seed_all inserts, which get the ids 1..17 in this order
DEFAULT_CATEGORIES == <<
    [name |-> "Software & SaaS",         type |-> "expense", tax_category |-> "business_expense"],
    [name |-> "Cloud Infrastructure",    type |-> "expense", tax_category |-> "business_expense"],
    [name |-> "Professional Services",   type |-> "expense", tax_category |-> "business_expense"],
    [name |-> "Travel & Transportation", type |-> "expense", tax_category |-> "business_expense"],
    [name |-> "Meals & Entertainment",   type |-> "expense", tax_category |-> "meals_entertainment"],
    [name |-> "Office Supplies",         type |-> "expense", tax_category |-> "business_expense"],
    [name |-> "Marketing & Advertising", type |-> "expense", tax_category |-> "business_expense"],
    [name |-> "Insurance",               type |-> "expense", tax_category |-> "business_expense"],
    [name |-> "Rent & Utilities",        type |-> "expense", tax_category |-> "business_expense"],
    [name |-> "Education & Training",    type |-> "expense", tax_category |-> "business_expense"],
    [name |-> "Hardware & Equipment",    type |-> "expense", tax_category |-> "depreciation"],
    [name |-> "Health & Medical",        type |-> "expense", tax_category |-> "medical_expense"],
    [name |-> "Personal",                type |-> "expense", tax_category |-> "not_deductible"],
    [name |-> "Uncategorized",           type |-> "expense", tax_category |-> "pending_review"],
    [name |-> "Revenue",                 type |-> "income",  tax_category |-> "income"],
    [name |-> "Consulting Income",       type |-> "income",  tax_category |-> "income"],
    [name |-> "Other Income",            type |-> "income",  tax_category |-> "income"] >>

\* The categories table after seed_all
SeededCategories ==
    [i \in 1..Len(DEFAULT_CATEGORIES) |->
        [name |-> DEFAULT_CATEGORIES[i].name, type |-> DEFAULT_CATEGORIES[i].type,
         tax_category |-> DEFAULT_CATEGORIES[i].tax_category, parent_id |-> NullId]]

Min(S) == CHOOSE x \in S : \A y \in S : x <= y
Max(S) == CHOOSE x \in S : \A y \in S : x >= y

\* db.query(Category).filter(Category.name == name).first(): the row's id, or NullId
CategoryByName(c, name) ==
    LET hits == {i \in DOMAIN c : c[i].name = name}
    IN  IF hits = {} THEN NullId ELSE Min(hits)

(***************************************************************************)
(* POST /transactions/classify                                             *)
(***************************************************************************)
\* The divisor of the confidence score
ConfidenceDivisor == 3

RECURSIVE KeywordCount(_, _)
\* sum(1 for kw in keywords if kw in text)
KeywordCount(keywords, text) ==
    IF keywords = <<>> THEN 0
    ELSE (IF Contains(Head(keywords), text) THEN 1 ELSE 0)
         + KeywordCount(Tail(keywords), text)

\* Fault: a later category with an equal count wins
BetterThanOrEqual(count, best_count) == count >= best_count

\* if count > best_count
BetterThan(count, best_count) == count > best_count

RECURSIVE ClassifyLoop(_, _, _, _)
\* the for loop of _classify_text from table entry i on
ClassifyLoop(i, text, best_count, best_name) ==
    IF i > Len(CATEGORY_KEYWORDS) THEN [count |-> best_count, name |-> best_name]
    ELSE LET count == KeywordCount(CATEGORY_KEYWORDS[i].keywords, text)
         IN  IF BetterThan(count, best_count)
             THEN ClassifyLoop(i + 1, text, count, CATEGORY_KEYWORDS[i].name)
             ELSE ClassifyLoop(i + 1, text, best_count, best_name)

\* _classify_text(text) -> (match_count, best_category_name)
ClassifyText(text) == ClassifyLoop(1, text, 0, "")

\* Fault: the text is matched without lowercasing
SearchTextNoLower(description, vendor) ==
    IF description = "" THEN (IF vendor \in {NullStr, ""} THEN "" ELSE vendor)
    ELSE IF vendor \in {NullStr, ""} THEN description
    ELSE description \o " " \o vendor

\* " ".join(filter(None, [data.description, data.vendor])).lower()
SearchText(description, vendor) ==
    Lower(IF description = "" THEN (IF vendor \in {NullStr, ""} THEN "" ELSE vendor)
          ELSE IF vendor \in {NullStr, ""} THEN description
          ELSE description \o " " \o vendor)

\* Fault: the score is not capped
ConfidenceUncapped(match_count) == RoundHalfEven(100 * match_count, ConfidenceDivisor)

\* round(min(1.0, match_count / 3), 2), in hundredths
Confidence(match_count) ==
    IF match_count >= ConfidenceDivisor THEN 100
    ELSE RoundHalfEven(100 * match_count, ConfidenceDivisor)

\* Fault: the empty best name is passed through
NoMatchNameEmpty == ""

\* category_name of the no-match response
NoMatchName == "Uncategorized"

\* classify_transaction(data): the ClassifyResponse
ClassifyTransaction(description, vendor, c) ==
    LET best == ClassifyText(SearchText(description, vendor))
    IN  IF best.name = "" \/ best.count = 0
        THEN [kind |-> "classify", status |-> 200,
              category_id |-> CategoryByName(c, "Uncategorized"),
              category_name |-> NoMatchName,
              tax_category |-> "pending_review",
              confidence |-> 0,
              match_count |-> 0]
        ELSE LET cat == CategoryByName(c, best.name)
             IN  [kind |-> "classify", status |-> 200,
                  category_id |-> cat,
                  category_name |-> best.name,
                  tax_category |-> IF cat = NullId THEN NullStr ELSE c[cat].tax_category,
                  confidence |-> Confidence(best.count),
                  match_count |-> best.count]

(***************************************************************************)
(* Dates and stored transactions                                           *)
(***************************************************************************)
\* datetime.date(year, month, day)
Date(y, m, d) == [year |-> y, month |-> m, day |-> d]

\* date < date
DateLess(a, b) ==
    \/ a.year < b.year
    \/ a.year = b.year /\ a.month < b.month
    \/ a.year = b.year /\ a.month = b.month /\ a.day < b.day

\* Transaction.category_obj: the referenced Category row, None when there is none
CategoryObj(txn, c) ==
    IF txn.category_id \in DOMAIN c THEN c[txn.category_id] ELSE None

\* Transaction.category_name
CategoryName(txn, c) ==
    IF CategoryObj(txn, c) = None THEN NullStr ELSE CategoryObj(txn, c).name

\* Transaction.tax_category
TaxCategory(txn, c) ==
    IF CategoryObj(txn, c) = None THEN NullStr ELSE CategoryObj(txn, c).tax_category

\* txn.category_obj.type if txn.category_obj else "expense"
CatType(txn, c) ==
    IF CategoryObj(txn, c) = None THEN "expense" ELSE CategoryObj(txn, c).type

(***************************************************************************)
(* GET /dashboard                                                          *)
(***************************************************************************)
\* The length of the top-categories list
TopN == 5

\* The length of the recent-transactions list
RecentN == 5

RECURSIVE TotalIncome(_, _)
\* total_income after the loop over all_txns
TotalIncome(all_txns, c) ==
    IF all_txns = <<>> THEN 0
    ELSE LET txn == all_txns[Len(all_txns)]
             before == TotalIncome(SubSeq(all_txns, 1, Len(all_txns) - 1), c)
         IN  IF CatType(txn, c) = "income" THEN before + txn.amount ELSE before

\* Fault: expenses are added with their sign
ExpenseAmountSigned(amount) == amount

\* abs(amount), what a transaction adds to the expenses
ExpenseAmount(amount) == Abs(amount)

RECURSIVE TotalExpenses(_, _)
\* total_expenses after the loop over all_txns
TotalExpenses(all_txns, c) ==
    IF all_txns = <<>> THEN 0
    ELSE LET txn == all_txns[Len(all_txns)]
             before == TotalExpenses(SubSeq(all_txns, 1, Len(all_txns) - 1), c)
         IN  IF CatType(txn, c) = "income" THEN before
             ELSE before + ExpenseAmount(txn.amount)

\* select count(id) from transactions where category_id is null
UnclassifiedCount(stored) ==
    Cardinality({k \in 1..Len(stored) : stored[k].category_id = NullId})

\* expense_cat_ids: the ids of the categories whose type is "expense"
ExpenseCatIds(c) == {i \in DOMAIN c : c[i].type = "expense"}

\* d[key] = d.get(key, 0.0) + amount on a dict kept as the sequence of its
\* (key, value) pairs in insertion order
DictAdd(d, key, amount) ==
    IF \E k \in 1..Len(d) : d[k].key = key
    THEN [k \in 1..Len(d) |->
            IF d[k].key = key THEN [d[k] EXCEPT !.value = @ + amount] ELSE d[k]]
    ELSE Append(d, [key |-> key, value |-> amount])

RECURSIVE CatTotals(_, _)
\* cat_totals after the loop over all_txns
CatTotals(all_txns, c) ==
    IF all_txns = <<>> THEN <<>>
    ELSE LET txn == all_txns[Len(all_txns)]
             before == CatTotals(SubSeq(all_txns, 1, Len(all_txns) - 1), c)
         IN  IF /\ txn.category_id # NullId
                /\ txn.category_id # 0
                /\ txn.category_id \in ExpenseCatIds(c)
             THEN DictAdd(before, txn.category_id, Abs(txn.amount))
             ELSE before

\* Fault: the totals are left in insertion order
InsertByValueLast(s, x) == Append(s, x)

\* Where a stable sort by value, largest first, puts x into the sorted s:
\* behind every item whose value is at least x's
InsertByValueDesc(s, x) ==
    LET n == Cardinality({k \in 1..Len(s) : s[k].value >= x.value})
    IN  SubSeq(s, 1, n) \o <<x>> \o SubSeq(s, n + 1, Len(s))

RECURSIVE SortedByValueDesc(_)
\* sorted(d.items(), key=lambda x: x[1], reverse=True)
SortedByValueDesc(d) ==
    IF d = <<>> THEN <<>>
    ELSE InsertByValueDesc(SortedByValueDesc(SubSeq(d, 1, Len(d) - 1)), d[Len(d)])

\* Fault: every percentage is rounded up to the next tenth
PercentageCeiling(amt, total_expenses) ==
    IF total_expenses # 0 THEN -((-(1000 * amt)) \div total_expenses) ELSE 0

\* round((amt / total_expenses * 100), 1) if total_expenses else 0.0, in tenths.
\* A share is an exact tie between two tenths only when total_expenses is a
\* multiple of 16 cents and amt is odd; there the float quotient decides.
Percentage(amt, total_expenses) ==
    IF total_expenses # 0 THEN RoundHalfEven(1000 * amt, total_expenses) ELSE 0

\* Fault: the list is not cut
TakeAll(s) == s

\* [:5]
TakeTop(s) == SubSeq(s, 1, IF Len(s) < TopN THEN Len(s) ELSE TopN)

\* top_categories
TopCategories(all_txns, c, total_expenses) ==
    LET top == TakeTop(SortedByValueDesc(CatTotals(all_txns, c)))
    IN  [k \in 1..Len(top) |->
            [category_id |-> top[k].key,
             category_name |-> c[top[k].key].name,
             tax_category |-> c[top[k].key].tax_category,
             amount |-> top[k].value,
             percentage |-> Percentage(top[k].value, total_expenses)]]

\* trend_start, "the 1st of the month 11 months ago"
TrendStart(t) ==
    IF t.month > 11 THEN Date(t.year - 1, t.month - 11, 1)
    ELSE Date(t.year - 1, t.month + 1, 1)

\* The bucket of a month, with this transaction added to it
MonthlyAdd(monthly, txn, c) ==
    LET y == txn.date.year
        m == txn.date.month
        had == \E k \in 1..Len(monthly) : monthly[k].year = y /\ monthly[k].month = m
        rows == IF had THEN monthly
                ELSE Append(monthly, [year |-> y, month |-> m, income |-> 0, expenses |-> 0])
    IN  [k \in 1..Len(rows) |->
            IF rows[k].year = y /\ rows[k].month = m
            THEN IF CatType(txn, c) = "income"
                 THEN [rows[k] EXCEPT !.income = @ + txn.amount]
                 ELSE [rows[k] EXCEPT !.expenses = @ + Abs(txn.amount)]
            ELSE rows[k]]

RECURSIVE Monthly(_, _, _)
\* monthly after the loop over all_txns, as its values in insertion order
Monthly(all_txns, c, trend_start) ==
    IF all_txns = <<>> THEN <<>>
    ELSE LET txn == all_txns[Len(all_txns)]
             before == Monthly(SubSeq(all_txns, 1, Len(all_txns) - 1), c, trend_start)
         IN  IF DateLess(txn.date, trend_start) THEN before
             ELSE MonthlyAdd(before, txn, c)

\* Where a stable sort by (year, month) puts row x into the sorted s
InsertByMonth(s, x) ==
    LET n == Cardinality({k \in 1..Len(s) :
                 \/ s[k].year < x.year
                 \/ s[k].year = x.year /\ s[k].month <= x.month})
    IN  SubSeq(s, 1, n) \o <<x>> \o SubSeq(s, n + 1, Len(s))

RECURSIVE SortedByMonth(_)
\* sorted(rows, key=lambda x: (x["year"], x["month"]))
SortedByMonth(rows) ==
    IF rows = <<>> THEN <<>>
    ELSE InsertByMonth(SortedByMonth(SubSeq(rows, 1, Len(rows) - 1)), rows[Len(rows)])

\* monthly_trend: the sorted rows, each with its net
MonthlyTrend(all_txns, c, t) ==
    LET rows == SortedByMonth(Monthly(all_txns, c, TrendStart(t)))
    IN  [k \in 1..Len(rows) |->
            [year |-> rows[k].year, month |-> rows[k].month,
             income |-> rows[k].income, expenses |-> rows[k].expenses,
             net |-> rows[k].income - rows[k].expenses]]

\* Where a sort by (date desc, id desc) puts transaction x into the sorted s
InsertRecent(s, x) ==
    LET n == Cardinality({k \in 1..Len(s) :
                 \/ DateLess(x.date, s[k].date)
                 \/ x.date = s[k].date /\ x.id < s[k].id})
    IN  SubSeq(s, 1, n) \o <<x>> \o SubSeq(s, n + 1, Len(s))

RECURSIVE SortedRecent(_)
\* order_by(Transaction.date.desc(), Transaction.id.desc())
SortedRecent(stored) ==
    IF stored = <<>> THEN <<>>
    ELSE InsertRecent(SortedRecent(SubSeq(stored, 1, Len(stored) - 1)), stored[Len(stored)])

\* recent_txns: the ids of the 5 most recent transactions
RecentTransactions(stored) ==
    LET s == SortedRecent(stored)
    IN  [k \in 1..(IF Len(s) < RecentN THEN Len(s) ELSE RecentN) |-> s[k].id]

\* Fault: the net is computed from the wrong figures
NetOfSum(income, expenses) == income + expenses

\* round(total_income - total_expenses, 2)
NetOf(income, expenses) == income - expenses

\* get_dashboard: the response, from what its queries read.  all_txns is the
\* result of query(Transaction).all(), counted that of the count query,
\* c the categories, recent that of the recent-transactions query.
Dashboard(all_txns, counted, c, recent, t) ==
    LET total_income == TotalIncome(all_txns, c)
        total_expenses == TotalExpenses(all_txns, c)
    IN  [kind |-> "dashboard", status |-> 200,
         total_income |-> total_income,
         total_expenses |-> total_expenses,
         net_income |-> NetOf(total_income, total_expenses),
         unclassified_count |-> UnclassifiedCount(counted),
         top_categories |-> TopCategories(all_txns, c, total_expenses),
         monthly_trend |-> MonthlyTrend(all_txns, c, t),
         recent_transactions |-> RecentTransactions(recent)]

(***************************************************************************)
(* GET /reports/tax-summary                                                *)
(***************************************************************************)
\* TAX_DEDUCTIBILITY, the factors in percent
TAX_DEDUCTIBILITY ==
    [business_expense |-> 100, meals_entertainment |-> 50, depreciation |-> 100,
     medical_expense |-> 100, income |-> 0, not_deductible |-> 0, pending_review |-> 0]

\* Fault: a tag the table does not know is fully deductible
DeductibilityFactorFull(tax_cat) ==
    IF tax_cat \in DOMAIN TAX_DEDUCTIBILITY THEN TAX_DEDUCTIBILITY[tax_cat] ELSE 100

\* TAX_DEDUCTIBILITY.get(tax_cat, 0.0)
DeductibilityFactor(tax_cat) ==
    IF tax_cat \in DOMAIN TAX_DEDUCTIBILITY THEN TAX_DEDUCTIBILITY[tax_cat] ELSE 0

\* The odd amounts below 100 cents whose half round() takes up to the next
\* cent: float(amount) * 0.5 is not the exact half cent, and its error decides
HalfCentRoundsUp ==
    {1, 5, 7, 11, 13, 17, 19, 23, 27, 33, 39, 45, 51, 53, 55, 63, 65, 67, 75, 77,
     79, 81, 89, 91, 93}

\* round(expense_amt * factor, 2) for the factors of the table, amounts below 100
Deductible(expense_amt, factor) ==
    IF (expense_amt * factor) % 100 = 0 THEN (expense_amt * factor) \div 100
    ELSE IF expense_amt \in HalfCentRoundsUp THEN (expense_amt * factor) \div 100 + 1
    ELSE (expense_amt * factor) \div 100

\* Fault: the last day of the year is left out
InTaxYearExclusiveEnd(d, year) ==
    /\ ~DateLess(d, Date(year, 1, 1))
    /\ DateLess(d, Date(year, 12, 31))

\* Transaction.date >= start, Transaction.date <= end
InTaxYear(d, year) ==
    /\ ~DateLess(d, Date(year, 1, 1))
    /\ ~DateLess(Date(year, 12, 31), d)

RECURSIVE TaxYearTxns(_, _)
\* The transactions the date filter of the tax summary selects
TaxYearTxns(stored, year) ==
    IF stored = <<>> THEN <<>>
    ELSE LET before == TaxYearTxns(SubSeq(stored, 1, Len(stored) - 1), year)
             txn == stored[Len(stored)]
         IN  IF InTaxYear(txn.date, year) THEN Append(before, txn) ELSE before

\* Fault: a missing tax category is not resolved to pending_review
TaxCatOfRaw(txn, c) == TaxCategory(txn, c)

\* txn.tax_category or "pending_review"
TaxCatOf(txn, c) ==
    IF TaxCategory(txn, c) \in {NullStr, ""} THEN "pending_review" ELSE TaxCategory(txn, c)

\* by_tax_cat with one more expense put into the bucket of tax_cat
BucketAdd(by_tax_cat, tax_cat, expense_amt) ==
    LET factor == DeductibilityFactor(tax_cat)
        deductible == Deductible(expense_amt, factor)
        had == \E k \in 1..Len(by_tax_cat) : by_tax_cat[k].key = tax_cat
        buckets == IF had THEN by_tax_cat
                   ELSE Append(by_tax_cat,
                               [key |-> tax_cat, gross_amount |-> 0,
                                deductible_amount |-> 0, transaction_count |-> 0,
                                deductibility_rate |-> factor])
    IN  [k \in 1..Len(buckets) |->
            IF buckets[k].key = tax_cat
            THEN [buckets[k] EXCEPT !.gross_amount = @ + expense_amt,
                                    !.deductible_amount = @ + deductible,
                                    !.transaction_count = @ + 1]
            ELSE buckets[k]]

RECURSIVE TaxLoop(_, _)
\* The state of tax_summary_report's loop after these transactions
TaxLoop(in_year, c) ==
    IF in_year = <<>>
    THEN [total_income |-> 0, total_expenses |-> 0, by_tax_cat |-> <<>>,
          pending_review_count |-> 0]
    ELSE LET before == TaxLoop(SubSeq(in_year, 1, Len(in_year) - 1), c)
             txn == in_year[Len(in_year)]
             tax_cat == TaxCatOf(txn, c)
         IN  IF tax_cat = "income"
             THEN [before EXCEPT !.total_income = @ + txn.amount]
             ELSE [total_income |-> before.total_income,
                   total_expenses |-> before.total_expenses + Abs(txn.amount),
                   by_tax_cat |-> BucketAdd(before.by_tax_cat, tax_cat, Abs(txn.amount)),
                   pending_review_count |->
                       before.pending_review_count
                       + (IF tax_cat = "pending_review" THEN 1 ELSE 0)]

\* Fault: only the first bucket is added up
SumDeductibleFirst(by_tax_cat) ==
    IF by_tax_cat = <<>> THEN 0 ELSE Head(by_tax_cat).deductible_amount

RECURSIVE SumDeductible(_)
\* sum(v["deductible_amount"] for v in by_tax_cat.values())
SumDeductible(by_tax_cat) ==
    IF by_tax_cat = <<>> THEN 0
    ELSE Head(by_tax_cat).deductible_amount + SumDeductible(Tail(by_tax_cat))

\* tax_summary_report(year): the response, from what its queries read.
\* selected is the result of the transactions query, counted the store the
\* count query reads.
TaxSummary(selected, counted, c, year) ==
    LET end == TaxLoop(selected, c)
    IN  [kind |-> "tax_summary", status |-> 200,
         year |-> year,
         total_income |-> end.total_income,
         total_expenses |-> end.total_expenses,
         total_deductible |-> SumDeductible(end.by_tax_cat),
         net_income |-> end.total_income - end.total_expenses,
         by_tax_category |-> end.by_tax_cat,
         unclassified_count |-> UnclassifiedCount(TaxYearTxns(counted, year)),
         transactions_pending_review |-> end.pending_review_count]

(***************************************************************************)
(* GET /reports/monthly                                                    *)
(***************************************************************************)
\* Fault: every month is taken to end on its 30th day, February on its 28th
MonthRangeThirty(year, month) == IF month = 2 THEN 28 ELSE 30

\* calendar.monthrange(year, month)[1]: the number of days of the month
MonthRange(year, month) ==
    IF month \in {4, 6, 9, 11} THEN 30
    ELSE IF month # 2 THEN 31
    ELSE IF year % 4 = 0 /\ (year % 100 # 0 \/ year % 400 = 0) THEN 29
    ELSE 28

\* Transaction.date >= start, Transaction.date <= end of monthly_report
InMonth(d, year, month) ==
    /\ ~DateLess(d, Date(year, month, 1))
    /\ ~DateLess(Date(year, month, MonthRange(year, month)), d)

RECURSIVE MonthTxns(_, _, _)
\* The transactions the date filter of the monthly report selects
MonthTxns(stored, year, month) ==
    IF stored = <<>> THEN <<>>
    ELSE LET before == MonthTxns(SubSeq(stored, 1, Len(stored) - 1), year, month)
             txn == stored[Len(stored)]
         IN  IF InMonth(txn.date, year, month) THEN Append(before, txn) ELSE before

\* txn.category_name or "Uncategorized"
CatNameOf(txn, c) ==
    IF CategoryName(txn, c) \in {NullStr, ""} THEN "Uncategorized" ELSE CategoryName(txn, c)

\* category_totals with this transaction added to the entry of its name
CategoryTotalsAdd(category_totals, txn, c) ==
    LET cat_name == CatNameOf(txn, c)
        had == \E k \in 1..Len(category_totals) : category_totals[k].category_name = cat_name
        rows == IF had THEN category_totals
                ELSE Append(category_totals,
                            [category_id |-> txn.category_id, category_name |-> cat_name,
                             type |-> CatType(txn, c), amount |-> 0, count |-> 0])
    IN  [k \in 1..Len(rows) |->
            IF rows[k].category_name = cat_name
            THEN [rows[k] EXCEPT !.amount = @ + Abs(txn.amount), !.count = @ + 1]
            ELSE rows[k]]

RECURSIVE CategoryTotals(_, _)
\* category_totals after the loop of monthly_report, in insertion order
CategoryTotals(in_month, c) ==
    IF in_month = <<>> THEN <<>>
    ELSE CategoryTotalsAdd(CategoryTotals(SubSeq(in_month, 1, Len(in_month) - 1), c),
                           in_month[Len(in_month)], c)

\* Fault: the entries are left in insertion order
InsertLast(s, x) == Append(s, x)

\* Where a stable sort by amount, largest first, puts x into the sorted s
InsertByAmountDesc(s, x) ==
    LET n == Cardinality({k \in 1..Len(s) : s[k].amount >= x.amount})
    IN  SubSeq(s, 1, n) \o <<x>> \o SubSeq(s, n + 1, Len(s))

RECURSIVE SortedByAmountDesc(_)
\* sorted(category_totals.values(), key=lambda x: x["amount"], reverse=True)
SortedByAmountDesc(rows) ==
    IF rows = <<>> THEN <<>>
    ELSE InsertByAmountDesc(SortedByAmountDesc(SubSeq(rows, 1, Len(rows) - 1)),
                            rows[Len(rows)])

\* monthly_report(year, month): the response, from the result of its query
MonthlyReport(selected, c, year, month) ==
    [kind |-> "monthly", status |-> 200,
     year |-> year, month |-> month,
     total_income |-> TotalIncome(selected, c),
     total_expenses |-> TotalExpenses(selected, c),
     net |-> TotalIncome(selected, c) - TotalExpenses(selected, c),
     transaction_count |-> Len(selected),
     by_category |-> SortedByAmountDesc(CategoryTotals(selected, c))]

(***************************************************************************)
(* GET /reports/category                                                   *)
(***************************************************************************)
\* Fault: the last day of the range is left out
InRangeExclusiveEnd(d, start, end) ==
    /\ start = None \/ ~DateLess(d, start)
    /\ end = None \/ DateLess(d, end)

\* if start: Transaction.date >= start; if end: Transaction.date <= end
InRange(d, start, end) ==
    /\ start = None \/ ~DateLess(d, start)
    /\ end = None \/ ~DateLess(end, d)

RECURSIVE CategoryTxns(_, _, _, _)
\* The rows the query of category_report selects, before they are ordered
CategoryTxns(stored, category_id, start, end) ==
    IF stored = <<>> THEN <<>>
    ELSE LET before == CategoryTxns(SubSeq(stored, 1, Len(stored) - 1),
                                    category_id, start, end)
             txn == stored[Len(stored)]
         IN  IF txn.category_id = category_id /\ InRange(txn.date, start, end)
             THEN Append(before, txn) ELSE before

\* The orders order_by(Transaction.date) may return the rows in: every
\* arrangement with ascending dates; rows of one date come in an order the
\* database chooses
DateOrders(rows) ==
    LET n == Len(rows)
        perms == {p \in [1..n -> 1..n] : \A i, j \in 1..n : i # j => p[i] # p[j]}
        ordered == {p \in perms :
                       \A i \in 1..(n - 1) : ~DateLess(rows[p[i + 1]].date, rows[p[i]].date)}
    IN  {[i \in 1..n |-> rows[p[i]]] : p \in ordered}

RECURSIVE TotalAmount(_)
\* sum(abs(float(t.amount)) for t in txns)
TotalAmount(ordered) ==
    IF ordered = <<>> THEN 0 ELSE Abs(Head(ordered).amount) + TotalAmount(Tail(ordered))

\* round(total_amount / count, 2) if count else 0.0
Average(total_amount, count) ==
    IF count # 0 THEN RoundHalfEven(total_amount, count) ELSE 0

\* monthly with this transaction added to the entry of its month
BreakdownAdd(monthly, txn) ==
    LET y == txn.date.year
        m == txn.date.month
        had == \E k \in 1..Len(monthly) : monthly[k].year = y /\ monthly[k].month = m
        rows == IF had THEN monthly
                ELSE Append(monthly, [year |-> y, month |-> m, amount |-> 0, count |-> 0])
    IN  [k \in 1..Len(rows) |->
            IF rows[k].year = y /\ rows[k].month = m
            THEN [rows[k] EXCEPT !.amount = @ + Abs(txn.amount), !.count = @ + 1]
            ELSE rows[k]]

RECURSIVE Breakdown(_)
\* monthly after the loop of category_report, in insertion order
Breakdown(ordered) ==
    IF ordered = <<>> THEN <<>>
    ELSE BreakdownAdd(Breakdown(SubSeq(ordered, 1, Len(ordered) - 1)), ordered[Len(ordered)])

\* Where a sort by (year, month) puts x into the sorted s
InsertByYearMonth(s, x) ==
    LET n == Cardinality({k \in 1..Len(s) :
                             12 * s[k].year + s[k].month <= 12 * x.year + x.month})
    IN  SubSeq(s, 1, n) \o <<x>> \o SubSeq(s, n + 1, Len(s))

RECURSIVE SortedByYearMonth(_)
\* sorted(monthly.values(), key=lambda x: (x["year"], x["month"]))
SortedByYearMonth(rows) ==
    IF rows = <<>> THEN <<>>
    ELSE InsertByYearMonth(SortedByYearMonth(SubSeq(rows, 1, Len(rows) - 1)),
                           rows[Len(rows)])

\* Fault: a missing category is answered with an empty report
CategoryNotFoundEmpty ==
    [kind |-> "category_report", status |-> 200, total_amount |-> 0,
     transaction_count |-> 0, average_transaction |-> 0,
     monthly_breakdown |-> <<>>, transactions |-> <<>>]

\* raise HTTPException(status_code=404, detail="Category not found")
CategoryNotFound == [kind |-> "category_report", status |-> 404]

\* category_report(category_id, start, end): the response, from the stored
\* categories and the ordered result of its transactions query
CategoryReport(ordered, c, category_id, start, end) ==
    IF category_id \notin DOMAIN c THEN CategoryNotFound
    ELSE [kind |-> "category_report", status |-> 200,
          category |-> [id |-> category_id, name |-> c[category_id].name,
                        type |-> c[category_id].type,
                        tax_category |-> c[category_id].tax_category],
          start_date |-> start, end_date |-> end,
          total_amount |-> TotalAmount(ordered),
          transaction_count |-> Len(ordered),
          average_transaction |-> Average(TotalAmount(ordered), Len(ordered)),
          monthly_breakdown |-> SortedByYearMonth(Breakdown(ordered)),
          transactions |-> [k \in 1..Len(ordered) |->
                               [id |-> ordered[k].id, date |-> ordered[k].date,
                                amount |-> ordered[k].amount]]]

(***************************************************************************)
(* Request handlers as actions                                             *)
(***************************************************************************)
\* A request arrives: POST /transactions/classify with body {description, vendor}
ReceiveClassify(description, vendor) ==
    LET r == [kind |-> "classify", description |-> description, vendor |-> vendor]
    IN  /\ req' = r
        /\ resp' = None
        /\ prev' = IF req = r THEN resp ELSE None
        /\ UNCHANGED <<cats, txns, today>>
    /\ UNCHANGED others
        /\ UNCHANGED others

\* classify_transaction answers the request; the store is only read
Classify ==
    /\ req.kind = "classify"
    /\ resp = None
    /\ resp' = ClassifyTransaction(req.description, req.vendor, cats)
    /\ UNCHANGED <<cats, txns, today, req, prev>>
    /\ UNCHANGED others

\* Fault: the budgets of a deleted category are left as they are
DeleteOutcomesIgnoringBudgets(category_id, c, b) == {FALSE}

\* Whether db.commit() refuses the deletion (TRUE).  The ORM first sets the
\* foreign keys of the rows related to the category to NULL: for a budget
\* that is an UPDATE of the NOT NULL column budgets.category_id, which the
\* store refuses.  For a category that is its own parent the flush has to
\* update and delete the same row; both outcomes are kept.
DeleteOutcomes(category_id, c, b) ==
    IF \E k \in 1..Len(b) : b[k].category_id = category_id THEN {TRUE}
    ELSE IF c[category_id].parent_id = category_id THEN BOOLEAN
    ELSE {FALSE}

\* The categories table after the deletion: the row is gone and the
\* parent_id of its children is NULL
CategoriesAfterDelete(c, category_id) ==
    [i \in DOMAIN c \ {category_id} |->
        IF c[i].parent_id = category_id
        THEN [c[i] EXCEPT !.parent_id = NullId] ELSE c[i]]

\* DELETE /categories/{category_id}.  Category.transactions has no cascade, so
\* the ORM sets category_id of the category's transactions to NULL.
DeleteCategory(category_id) ==
    /\ req' = [kind |-> "delete_category", category_id |-> category_id]
    /\ prev' = None
    /\ IF category_id \notin DOMAIN cats
       THEN /\ resp' = [kind |-> "delete_category", status |-> 404]
            /\ UNCHANGED <<cats, txns>>
       ELSE \E refused \in DeleteOutcomes(category_id, cats, budgets) :
               IF refused
               THEN /\ resp' = [kind |-> "delete_category", status |-> 500]
                    /\ UNCHANGED <<cats, txns>>
               ELSE /\ cats' = CategoriesAfterDelete(cats, category_id)
                    /\ txns' = [k \in 1..Len(txns) |->
                                  IF txns[k].category_id = category_id
                                  THEN [txns[k] EXCEPT !.category_id = NullId]
                                  ELSE txns[k]]
                    /\ resp' = [kind |-> "delete_category", status |-> 204]
    /\ UNCHANGED today
    /\ UNCHANGED others

\* The id the store gives the next inserted transaction
NextTransactionId(stored) ==
    IF stored = <<>> THEN 1 ELSE 1 + Max({stored[k].id : k \in 1..Len(stored)})

\* What db.commit() does with a row whose category_id names no category: a
\* store that enforces the foreign key refuses it (TRUE), one that does not
\* keeps it (FALSE).  A null or stored category_id is always kept.
ForeignKeyOutcomes(category_id, c) ==
    IF category_id = NullId \/ category_id \in DOMAIN c THEN {FALSE} ELSE BOOLEAN

\* Transaction(**data): the row db.add() inserts; updated_at counts the
\* updates of the row since it was created
NewTransaction(stored, date, amount, category_id, source) ==
    [id |-> NextTransactionId(stored), date |-> date, amount |-> amount,
     category_id |-> category_id, source |-> source, updated_at |-> 0]

\* POST /transactions: create_transaction(data)
CreateTransaction(date, amount, category_id) ==
    /\ req' = [kind |-> "create_transaction", date |-> date, amount |-> amount,
               category_id |-> category_id]
    /\ prev' = None
    /\ IF category_id # NullId /\ category_id # 0 /\ category_id \notin DOMAIN cats
       THEN /\ resp' = [kind |-> "create_transaction", status |-> 404]
            /\ UNCHANGED txns
       ELSE \E enforced \in ForeignKeyOutcomes(category_id, cats) :
               IF enforced
               THEN /\ resp' = [kind |-> "create_transaction", status |-> 500]
                    /\ UNCHANGED txns
               ELSE /\ txns' = Append(txns, NewTransaction(txns, date, amount,
                                                          category_id, "manual"))
                    /\ resp' = [kind |-> "create_transaction", status |-> 201]
    /\ UNCHANGED <<cats, today>>
    /\ UNCHANGED others

\* GET /dashboard: get_dashboard()
GetDashboard ==
    /\ req' = [kind |-> "dashboard"]
    /\ resp' = Dashboard(txns, txns, cats, txns, today)
    /\ prev' = None
    /\ UNCHANGED <<cats, txns, today>>
    /\ UNCHANGED others

\* GET /reports/tax-summary?year=: tax_summary_report(year)
GetTaxSummary(year) ==
    /\ req' = [kind |-> "tax_summary", year |-> year]
    /\ resp' = TaxSummary(TaxYearTxns(txns, year), txns, cats, year)
    /\ prev' = None
    /\ UNCHANGED <<cats, txns, today>>
    /\ UNCHANGED others

\* GET /reports/monthly?year=&month=: monthly_report(year, month)
GetMonthlyReport(year, month) ==
    /\ req' = [kind |-> "monthly", year |-> year, month |-> month]
    /\ resp' = MonthlyReport(MonthTxns(txns, year, month), cats, year, month)
    /\ prev' = None
    /\ UNCHANGED <<cats, txns, today>>
    /\ UNCHANGED others

\* GET /reports/category?category_id=&start=&end=: category_report
GetCategoryReport(category_id, start, end) ==
    /\ req' = [kind |-> "category_report", category_id |-> category_id,
               start |-> start, end |-> end]
    /\ \E ordered \in DateOrders(CategoryTxns(txns, category_id, start, end)) :
          resp' = CategoryReport(ordered, cats, category_id, start, end)
    /\ prev' = None
    /\ UNCHANGED <<cats, txns, today>>
    /\ UNCHANGED others

(***************************************************************************)
(* The classifier's specification: classify requests over a store from     *)
(* which categories may have been deleted                                  *)
(***************************************************************************)
ClassifyDescriptions ==
    {"AWS EC2 and S3 usage", "Team lunch at Nobu", "UberEats order",
     "Mystery charge XYZ-CORP", "Office chair", "MacBook Pro for developer",
     "Taxi to hotel and lunch", "Hotel", "Apple", ""}

ClassifyVendors ==
    {NullStr, "", "Amazon Web Services", "Starbucks", "XYZ Corp", "Uber", "Store"}

\* "Cloud Infrastructure" and "Uncategorized"
ClassifyDeletable == {2, 14}

StartDate == [year |-> 2025, month |-> 6, day |-> 15]

InitClassify ==
    /\ cats = SeededCategories
    /\ txns = <<>>
    /\ today = StartDate
    /\ req = None
    /\ resp = None
    /\ prev = None
    /\ budgets = <<>>
    /\ accounts = <<>>
    /\ reports = <<>>

ClassifyRequest ==
    \E d \in ClassifyDescriptions, v \in ClassifyVendors : ReceiveClassify(d, v)

ClassifyDeleteCategory == \E id \in ClassifyDeletable : DeleteCategory(id)

NextClassify == ClassifyRequest \/ Classify \/ ClassifyDeleteCategory

SpecClassify == InitClassify /\ [][NextClassify]_vars

(***************************************************************************)
(* Classifier properties                                                   *)
(***************************************************************************)
\* The number of keywords of table entry i that occur in text
TableCount(i, text) ==
    Cardinality({k \in 1..Len(CATEGORY_KEYWORDS[i].keywords) :
                    Contains(CATEGORY_KEYWORDS[i].keywords[k], text)})

\* Every table entry's count for the request's text
RequestCounts ==
    LET text == SearchText(req.description, req.vendor)
    IN  [i \in 1..Len(CATEGORY_KEYWORDS) |-> TableCount(i, text)]

CountsMax(counts) == Max({counts[i] : i \in DOMAIN counts})

\* The first table entry whose count is the maximum
CountsFirstBest(counts) == Min({i \in DOMAIN counts : counts[i] = CountsMax(counts)})

Classified == resp # None /\ resp.kind = "classify"

\* C1: the response names the category with the maximal keyword count, the
\* first one in table order among those with that count, and asking the same
\* request again gives the same response.
C1_FirstMaximalWins ==
    Classified =>
        LET counts == RequestCounts
        IN  /\ resp.match_count = CountsMax(counts)
            /\ CountsMax(counts) > 0 =>
                  resp.category_name = CATEGORY_KEYWORDS[CountsFirstBest(counts)].name
            /\ prev # None => prev = resp

\* C1's case: two categories tie on the maximal count and the request was repeated
C1_Witness ==
    /\ Classified
    /\ prev # None
    /\ LET counts == RequestCounts
       IN  /\ CountsMax(counts) > 0
           /\ \E i \in DOMAIN counts :
                 i # CountsFirstBest(counts) /\ counts[i] = CountsMax(counts)

\* C2: a text in which no keyword occurs is answered normally with
\* "Uncategorized", match_count 0 and confidence 0.0, stored or not.
C2_NoMatchUncategorized ==
    (Classified /\ \A i \in DOMAIN RequestCounts : RequestCounts[i] = 0) =>
        /\ resp.status = 200
        /\ resp.category_name = "Uncategorized"
        /\ resp.match_count = 0
        /\ resp.confidence = 0

\* C2's case: nothing matches a non-empty text and no category named
\* "Uncategorized" is stored
C2_Witness ==
    /\ Classified
    /\ req.description # ""
    /\ \A i \in DOMAIN cats : cats[i].name # "Uncategorized"
    /\ resp.category_id = NullId
    /\ CountsMax(RequestCounts) = 0

\* C3: with a positive match count the confidence (in hundredths) is 33 for
\* one match, 67 for two and 100 for three or more; so it never exceeds 100
\* and does not decrease as the count grows.
C3_Confidence ==
    Classified =>
        LET n == CountsMax(RequestCounts)
        IN  /\ n = 1 => resp.confidence = 33
            /\ n = 2 => resp.confidence = 67
            /\ n >= 3 => resp.confidence = 100
            /\ n > 0 => resp.confidence = RoundHalfEven(100 * (IF n < 3 THEN n ELSE 3), 3)

\* C3's case: more than three keywords match, where the cap acts
C3_Witness == Classified /\ resp.match_count > 3 /\ resp.confidence = 100

IsExample ==
    /\ Classified
    /\ req.description = "AWS EC2 and S3 usage"
    /\ req.vendor = "Amazon Web Services"

\* C4 as stated: the example is answered with match_count 3
C4_ExampleThreeMatches ==
    IsExample =>
        /\ resp.category_name = "Cloud Infrastructure"
        /\ resp.match_count = 3
        /\ resp.confidence = 100

\* C4 amended: "aws", "amazon web services", "ec2" and "s3" all occur in the
\* example's text, so it is answered with "Cloud Infrastructure",
\* match_count 4 and confidence 1.0.
C4_ExampleFourMatches ==
    IsExample =>
        /\ resp.category_name = "Cloud Infrastructure"
        /\ resp.match_count = 4
        /\ resp.confidence = 100

\* C4's case: the example has been classified
C4_Witness == IsExample /\ resp.status = 200

(***************************************************************************)
(* The dashboard's specifications.  The store holds the seeded categories; *)
(* the seeded sample transactions have been removed again through          *)
(* DELETE /transactions/{id}, so the transactions table starts empty and   *)
(* the small amounts posted below decide every figure.  Transactions are   *)
(* posted and the dashboard is asked for.                                  *)
(***************************************************************************)
\* The most transactions posted
MaxTxns == 3

\* Amounts in cents
Amounts == {-2, 2, 3}

\* No category, three expense categories and an income category
CategoryChoices == {NullId, 1, 5, 11, 15}

Init ==
    /\ cats = SeededCategories
    /\ txns = <<>>
    /\ today = StartDate
    /\ req = None
    /\ resp = None
    /\ prev = None
    /\ budgets = <<>>
    /\ accounts = <<>>
    /\ reports = <<>>

PostTransaction ==
    /\ Len(txns) < MaxTxns
    /\ \E a \in Amounts, c \in CategoryChoices : CreateTransaction(StartDate, a, c)

Next == PostTransaction \/ GetDashboard

Spec == Init /\ [][Next]_vars

\* The ranking: enough transactions to rank more than TopN expense categories
MaxTopTxns == 7

\* What the i-th posted transaction may be: an expense of category i or
\* i - 1 (the seeded categories 1..13 are expense categories), or revenue
TopChoices(i) ==
    {[category_id |-> i, amount |-> -1], [category_id |-> i, amount |-> 2],
     [category_id |-> 15, amount |-> 3]}
    \cup (IF i > 1 THEN {[category_id |-> i - 1, amount |-> 2]} ELSE {})

TopPostTransaction ==
    /\ Len(txns) < MaxTopTxns
    /\ \E ch \in TopChoices(Len(txns) + 1) :
          CreateTransaction(StartDate, ch.amount, ch.category_id)

NextTop == TopPostTransaction \/ GetDashboard

SpecTop == Init /\ [][NextTop]_vars

\* The trend: the dashboard is asked for in any month of 2025
MaxTrendTxns == 2

TrendTodays == {Date(2025, m, 15) : m \in 1..12}

TrendDates ==
    {Date(2023, 12, 31), Date(2024, 1, 1), Date(2024, 6, 30), Date(2024, 12, 1),
     Date(2025, 1, 31), Date(2025, 6, 15), Date(2025, 12, 31), Date(2026, 1, 1)}

TrendChoices ==
    {[category_id |-> 15, amount |-> 3], [category_id |-> 1, amount |-> -2],
     [category_id |-> NullId, amount |-> 2]}

InitTrend ==
    /\ cats = SeededCategories
    /\ txns = <<>>
    /\ today \in TrendTodays
    /\ req = None
    /\ resp = None
    /\ prev = None
    /\ budgets = <<>>
    /\ accounts = <<>>
    /\ reports = <<>>

TrendPostTransaction ==
    /\ Len(txns) < MaxTrendTxns
    /\ \E d \in TrendDates, ch \in TrendChoices :
          CreateTransaction(d, ch.amount, ch.category_id)

NextTrend == TrendPostTransaction \/ GetDashboard

SpecTrend == InitTrend /\ [][NextTrend]_vars

(***************************************************************************)
(* Dashboard properties                                                    *)
(***************************************************************************)
RECURSIVE SumOver(_, _)
\* The sum of f over the set S
SumOver(f, S) ==
    IF S = {} THEN 0
    ELSE LET x == CHOOSE x \in S : TRUE IN f[x] + SumOver(f, S \ {x})

RECURSIVE SumSeq(_)
SumSeq(s) == IF s = <<>> THEN 0 ELSE Head(s) + SumSeq(Tail(s))

Stored == 1..Len(txns)

\* The stored transactions whose category is stored and of type income
IncomeTxns ==
    {k \in Stored : /\ txns[k].category_id \in DOMAIN cats
                    /\ cats[txns[k].category_id].type = "income"}

\* The summed abs(amount) of the stored transactions of category id
SpentOn(id) ==
    SumOver([k \in Stored |-> Abs(txns[k].amount)],
            {k \in Stored : txns[k].category_id = id})

DashboardAnswered == resp # None /\ resp.kind = "dashboard"

\* C5: total_income is the sum of the signed amounts of the transactions of
\* an income category, total_expenses the sum of abs(amount) of all the
\* others, unclassified_count the number of transactions without category_id.
C5_DashboardTotals ==
    DashboardAnswered =>
        /\ resp.total_income = SumOver([k \in Stored |-> txns[k].amount], IncomeTxns)
        /\ resp.total_expenses =
              SumOver([k \in Stored |-> Abs(txns[k].amount)], Stored \ IncomeTxns)
        /\ resp.unclassified_count =
              Cardinality({k \in Stored : txns[k].category_id = NullId})

\* C5's case: an income, a negative expense and a positive amount without
\* category have been summed
C5_Witness ==
    /\ DashboardAnswered
    /\ IncomeTxns # {}
    /\ \E k \in Stored \ IncomeTxns : txns[k].category_id # NullId /\ txns[k].amount < 0
    /\ \E k \in Stored : txns[k].category_id = NullId /\ txns[k].amount > 0

\* C6: the reported net_income is the reported total_income minus the
\* reported total_expenses, and without transactions every figure is zero.
C6_NetIsIncomeMinusExpenses ==
    DashboardAnswered =>
        /\ resp.net_income = resp.total_income - resp.total_expenses
        /\ txns = <<>> =>
              /\ resp.total_income = 0 /\ resp.total_expenses = 0 /\ resp.net_income = 0
              /\ resp.unclassified_count = 0
              /\ resp.top_categories = <<>> /\ resp.monthly_trend = <<>>

\* C6's case: income and expenses are both reported and the net is negative
C6_Witness ==
    /\ DashboardAnswered
    /\ resp.total_income > 0
    /\ resp.total_expenses > resp.total_income
    /\ resp.net_income < 0

\* C7: top_categories has at most 5 entries, all of expense categories, each
\* with the category's summed abs(amount), largest first, and no expense
\* category left out has spent more than a listed one.
C7_TopCategories ==
    DashboardAnswered =>
        LET top == resp.top_categories
            listed == {top[k].category_id : k \in 1..Len(top)}
        IN  /\ Len(top) <= 5
            /\ \A k \in 1..Len(top) :
                  /\ top[k].category_id \in DOMAIN cats
                  /\ cats[top[k].category_id].type = "expense"
                  /\ top[k].amount = SpentOn(top[k].category_id)
            /\ \A k \in 1..(Len(top) - 1) : top[k].amount >= top[k + 1].amount
            /\ \A e \in DOMAIN cats \ listed :
                  cats[e].type = "expense" =>
                      \A k \in 1..Len(top) : SpentOn(e) <= top[k].amount

\* C7's case: more than 5 expense categories have transactions, one of them
\* is left out, and an income category has received more than any of them
C7_Witness ==
    /\ DashboardAnswered
    /\ Len(resp.top_categories) = 5
    /\ Cardinality({txns[k].category_id : k \in Stored \ IncomeTxns}) > 5
    /\ \E k \in IncomeTxns : txns[k].amount > resp.top_categories[1].amount
    /\ resp.top_categories[1].amount > resp.top_categories[5].amount

\* The listed percentages, in tenths of a percent
ListedPercentages ==
    [k \in 1..Len(resp.top_categories) |-> resp.top_categories[k].percentage]

\* Each listed percentage is the listed amount's share of total_expenses
\* rounded to a nearest tenth, 0.0 when total_expenses is 0
PercentagesAreShares ==
    \A k \in 1..Len(resp.top_categories) :
        LET row == resp.top_categories[k]
        IN  IF resp.total_expenses = 0 THEN row.percentage = 0
            ELSE 2 * Abs(row.percentage * resp.total_expenses - 1000 * row.amount)
                    <= resp.total_expenses

\* C8 as stated: the listed percentages sum to at most 100
C8_PercentagesAtMost100 ==
    DashboardAnswered => PercentagesAreShares /\ SumSeq(ListedPercentages) <= 1000

\* C8 amended: each percentage is rounded on its own, so the listed
\* percentages sum to at most 100 plus 0.05 for each listed entry.
C8_PercentagesAtMost100PlusRounding ==
    DashboardAnswered =>
        /\ PercentagesAreShares
        /\ 2 * SumSeq(ListedPercentages) <= 2000 + Len(resp.top_categories)

\* C8's case: the listed categories hold all expenses and their percentages
\* were rounded, some up
C8_Witness ==
    /\ DashboardAnswered
    /\ Len(resp.top_categories) = 3
    /\ SumSeq([k \in 1..3 |-> resp.top_categories[k].amount]) = resp.total_expenses
    /\ SumSeq(ListedPercentages) > 1000

\* The number of the month of a date or trend row, counted from year 0
MonthNumber(d) == 12 * d.year + d.month

\* C9 as stated: monthly_trend has exactly one entry for each month that
\* holds a transaction and lies in the 12 months ending at the current month,
\* none for any other month, and is sorted chronologically.
C9_TrendIsTrailingTwelveMonths ==
    DashboardAnswered =>
        LET trend == resp.monthly_trend
            window == (MonthNumber(today) - 11)..MonthNumber(today)
        IN  /\ {MonthNumber(trend[k]) : k \in 1..Len(trend)}
                  = {MonthNumber(txns[k].date) : k \in Stored} \cap window
            /\ \A k \in 1..(Len(trend) - 1) :
                  MonthNumber(trend[k]) < MonthNumber(trend[k + 1])

(***************************************************************************)
(* The tax summary's specification.  Besides the seeded categories the     *)
(* store holds two created through POST /categories: one with a tax tag    *)
(* the deductibility table does not know and one without tax tag.          *)
(***************************************************************************)
CreatedCategories == <<
    [name |-> "Donations", type |-> "expense", tax_category |-> "charity",
     parent_id |-> NullId],
    [name |-> "Grants", type |-> "income", tax_category |-> NullStr,
     parent_id |-> NullId] >>

TaxStoreCategories == SeededCategories \o CreatedCategories

MaxTaxTxns == 3

TaxYears == {2024, 2025}

\* The last day of one tax year and the first day of the next
TaxDates == {Date(2024, 12, 31), Date(2025, 1, 1)}

TaxChoices ==
    {[category_id |-> 15, amount |-> 3], [category_id |-> 5, amount |-> -1],
     [category_id |-> 1, amount |-> -2], [category_id |-> NullId, amount |-> 2],
     [category_id |-> 18, amount |-> 2], [category_id |-> 19, amount |-> 3],
     [category_id |-> 0, amount |-> -2]}

InitTax ==
    /\ cats = TaxStoreCategories
    /\ txns = <<>>
    /\ today = StartDate
    /\ req = None
    /\ resp = None
    /\ prev = None
    /\ budgets = <<>>
    /\ accounts = <<>>
    /\ reports = <<>>

TaxPostTransaction ==
    /\ Len(txns) < MaxTaxTxns
    /\ \E d \in TaxDates, ch \in TaxChoices :
          CreateTransaction(d, ch.amount, ch.category_id)

TaxReport == \E y \in TaxYears : GetTaxSummary(y)

NextTax == TaxPostTransaction \/ TaxReport

SpecTax == InitTax /\ [][NextTax]_vars

(***************************************************************************)
(* Tax summary properties                                                  *)
(***************************************************************************)
TaxAnswered == resp # None /\ resp.kind = "tax_summary"

\* The stored transactions dated Jan 1 to Dec 31 of the year asked for
InYear ==
    {k \in Stored : /\ ~DateLess(txns[k].date, Date(req.year, 1, 1))
                    /\ ~DateLess(Date(req.year, 12, 31), txns[k].date)}

\* The tax category a stored transaction resolves to
ResolvedTax(k) ==
    IF txns[k].category_id \notin DOMAIN cats THEN "pending_review"
    ELSE IF cats[txns[k].category_id].tax_category = NullStr THEN "pending_review"
    ELSE cats[txns[k].category_id].tax_category

InYearIncome == {k \in InYear : ResolvedTax(k) = "income"}

InYearExpenses == InYear \ InYearIncome

\* C10: the summary counts exactly the transactions of the year; those of tax
\* category income add their amount to total_income and to no bucket; every
\* other adds abs(amount) to total_expenses and to the one bucket of its tax
\* category, so the buckets' gross amounts sum to total_expenses and their
\* counts to the number of non-income transactions.
C10_TaxYearPartition ==
    TaxAnswered =>
        LET buckets == resp.by_tax_category
            keys == {buckets[b].key : b \in 1..Len(buckets)}
            abs == [k \in Stored |-> Abs(txns[k].amount)]
        IN  /\ resp.total_income = SumOver([k \in Stored |-> txns[k].amount], InYearIncome)
            /\ resp.total_expenses = SumOver(abs, InYearExpenses)
            /\ keys = {ResolvedTax(k) : k \in InYearExpenses}
            /\ Cardinality(keys) = Len(buckets)
            /\ \A b \in 1..Len(buckets) :
                  LET members == {k \in InYearExpenses : ResolvedTax(k) = buckets[b].key}
                  IN  /\ buckets[b].gross_amount = SumOver(abs, members)
                      /\ buckets[b].transaction_count = Cardinality(members)
            /\ resp.total_expenses = SumSeq([b \in 1..Len(buckets) |-> buckets[b].gross_amount])
            /\ Cardinality(InYearExpenses)
                  = SumSeq([b \in 1..Len(buckets) |-> buckets[b].transaction_count])

\* C10's case: the year holds an income and a transaction without category,
\* and a transaction dated on the last day of the year before is left out
C10_Witness ==
    /\ TaxAnswered
    /\ InYearIncome # {}
    /\ \E k \in InYearExpenses : txns[k].category_id = NullId
    /\ \E k \in Stored \ InYear :
          txns[k].date = Date(req.year - 1, 12, 31) /\ txns[k].amount # 0

\* The buckets of the answered tax summary
Buckets == resp.by_tax_category

\* C11 as stated: every bucket's deductible_amount is its gross_amount times
\* the bucket's deductibility factor, rounded once to cents.
C11_BucketDeductibleIsRoundedProduct ==
    TaxAnswered =>
        \A b \in 1..Len(Buckets) :
            Buckets[b].deductible_amount
                = Deductible(Buckets[b].gross_amount, DeductibilityFactor(Buckets[b].key))

\* C12: total_deductible is the sum of the buckets' deductible amounts and
\* never exceeds total_expenses.
C12_TotalDeductible ==
    TaxAnswered =>
        /\ resp.total_deductible
              = SumSeq([b \in 1..Len(Buckets) |-> Buckets[b].deductible_amount])
        /\ resp.total_deductible <= resp.total_expenses

\* C12's case: several buckets, some but not all of the expenses deductible
C12_Witness ==
    /\ TaxAnswered
    /\ Len(Buckets) >= 2
    /\ Buckets[2].deductible_amount > 0
    /\ resp.total_deductible < resp.total_expenses

UnknownTagged ==
    {k \in InYear : /\ txns[k].category_id \in DOMAIN cats
                    /\ cats[txns[k].category_id].tax_category # NullStr
                    /\ cats[txns[k].category_id].tax_category \notin DOMAIN TAX_DEDUCTIBILITY}

\* The transactions of the year whose stored category carries no tag
Untagged ==
    {k \in InYear : /\ txns[k].category_id \in DOMAIN cats
                    /\ cats[txns[k].category_id].tax_category = NullStr}

\* The bucket keyed key, as a set of bucket indices (empty or one)
BucketsKeyed(key) == {b \in 1..Len(Buckets) : Buckets[b].key = key}

\* C14 as stated: the summary is answered, and transactions with a missing
\* or unknown tag are non-deductible and accounted under pending_review, in
\* its bucket and in transactions_pending_review.
C14_UnknownTagsArePendingReview ==
    TaxAnswered =>
        /\ resp.status = 200
        /\ \A b \in 1..Len(Buckets) :
              Buckets[b].key \notin DOMAIN TAX_DEDUCTIBILITY =>
                  Buckets[b].deductible_amount = 0 /\ Buckets[b].deductibility_rate = 0
        /\ \A b \in 1..Len(Buckets) : Buckets[b].key \in DOMAIN TAX_DEDUCTIBILITY
        /\ resp.transactions_pending_review
              = Cardinality({k \in InYear : ResolvedTax(k) = "pending_review"}
                            \cup UnknownTagged)

\* C14 amended: the summary is answered; a transaction with a missing tag is
\* accounted under pending_review (bucket and count); a transaction with an
\* unknown tag is put in a bucket keyed by its own tag with rate 0 and
\* deductible amount 0, and is not counted in transactions_pending_review.
C14_UnknownTagsAreNotDeductible ==
    TaxAnswered =>
        /\ resp.status = 200
        /\ \A b \in 1..Len(Buckets) :
              Buckets[b].key \notin DOMAIN TAX_DEDUCTIBILITY =>
                  Buckets[b].deductible_amount = 0 /\ Buckets[b].deductibility_rate = 0
        /\ \A k \in UnknownTagged :
              \E b \in BucketsKeyed(cats[txns[k].category_id].tax_category) :
                  Buckets[b].transaction_count
                      = Cardinality({j \in UnknownTagged : ResolvedTax(j) = ResolvedTax(k)})
        /\ \A b \in BucketsKeyed("pending_review") :
              /\ Buckets[b].deductible_amount = 0
              /\ Buckets[b].transaction_count = resp.transactions_pending_review
        /\ Untagged # {} => BucketsKeyed("pending_review") # {}
        /\ resp.transactions_pending_review
              = Cardinality(Untagged \cup {k \in InYear : txns[k].category_id \notin DOMAIN cats})

\* C14's case: the year holds a transaction with an unknown tag and one with
\* no tag
C14_Witness ==
    /\ TaxAnswered
    /\ UnknownTagged # {}
    /\ Untagged # {}

(***************************************************************************)
(* The monthly report's specification: transactions around the ends of     *)
(* January and of the leap February of 2024                                *)
(***************************************************************************)
MaxMonthTxns == 3

MonthDates == {Date(2024, 1, 31), Date(2024, 2, 29), Date(2024, 3, 1)}

MonthsAsked == {<<2024, 1>>, <<2024, 2>>}

\* An income, expenses, and transactions without category and of the stored
\* category named "Uncategorized"
MonthChoices ==
    {[category_id |-> 15, amount |-> 100000], [category_id |-> 1, amount |-> -25000],
     [category_id |-> NullId, amount |-> -2], [category_id |-> 14, amount |-> -3],
     [category_id |-> 5, amount |-> -2]}

MonthPostTransaction ==
    /\ Len(txns) < MaxMonthTxns
    /\ \E d \in MonthDates, ch \in MonthChoices :
          CreateTransaction(d, ch.amount, ch.category_id)

MonthReport == \E ym \in MonthsAsked : GetMonthlyReport(ym[1], ym[2])

NextMonth == MonthPostTransaction \/ MonthReport

SpecMonth == Init /\ [][NextMonth]_vars

(***************************************************************************)
(* Monthly report properties                                               *)
(***************************************************************************)
MonthlyAnswered == resp # None /\ resp.kind = "monthly"

\* The stored transactions dated in the month asked for
InMonthAsked ==
    {k \in Stored : txns[k].date.year = req.year /\ txns[k].date.month = req.month}

\* The stored transactions of the month whose category has type income
InMonthIncome ==
    {k \in InMonthAsked : /\ txns[k].category_id \in DOMAIN cats
                          /\ cats[txns[k].category_id].type = "income"}

\* C15: the report considers exactly the transactions dated in the month;
\* total_income sums the amounts of those with an income category,
\* total_expenses abs(amount) of all others, net is their difference and
\* transaction_count the number considered.
C15_MonthlyTotals ==
    MonthlyAnswered =>
        LET amount == [k \in Stored |-> txns[k].amount]
            abs == [k \in Stored |-> Abs(txns[k].amount)]
        IN  /\ resp.total_income = SumOver(amount, InMonthIncome)
            /\ resp.total_expenses = SumOver(abs, InMonthAsked \ InMonthIncome)
            /\ resp.net = resp.total_income - resp.total_expenses
            /\ resp.transaction_count = Cardinality(InMonthAsked)

\* C15's case: the spec's example (income 1000.00, expense -250.00) on the
\* last day of the month, with a transaction of the next month left out
C15_Witness ==
    /\ MonthlyAnswered
    /\ resp.total_income = 100000 /\ resp.total_expenses = 25000
    /\ resp.net = 75000 /\ resp.transaction_count = 2
    /\ \A k \in InMonthAsked : txns[k].date.day = MonthRange(req.year, req.month)
    /\ Stored \ InMonthAsked # {}

\* The name a stored transaction is grouped under
GroupName(k) ==
    IF txns[k].category_id \in DOMAIN cats THEN cats[txns[k].category_id].name
    ELSE "Uncategorized"

\* C16 read by name: by_category has one entry per name present in the
\* month, with the summed abs(amount) and the number of its transactions;
\* the entries are sorted by amount descending and their counts sum to
\* transaction_count.
C16_ByCategory ==
    MonthlyAnswered =>
        LET rows == resp.by_category
            abs == [k \in Stored |-> Abs(txns[k].amount)]
        IN  /\ {rows[i].category_name : i \in 1..Len(rows)}
                  = {GroupName(k) : k \in InMonthAsked}
            /\ \A i, j \in 1..Len(rows) :
                  i # j => rows[i].category_name # rows[j].category_name
            /\ \A i \in 1..Len(rows) :
                  LET members == {k \in InMonthAsked : GroupName(k) = rows[i].category_name}
                  IN  /\ rows[i].amount = SumOver(abs, members)
                      /\ rows[i].count = Cardinality(members)
            /\ \A i \in 1..(Len(rows) - 1) : rows[i].amount >= rows[i + 1].amount
            /\ SumSeq([i \in 1..Len(rows) |-> rows[i].count]) = resp.transaction_count

\* C16 as stated: by_category has exactly one entry per category present in
\* the month (the transactions without category being one more), holding
\* the summed abs(amount) and the number of that category's transactions;
\* the entries are sorted by amount descending and their counts sum to
\* transaction_count.
C16_OneEntryPerCategory ==
    MonthlyAnswered =>
        LET rows == resp.by_category
            abs == [k \in Stored |-> Abs(txns[k].amount)]
            present == {txns[k].category_id : k \in InMonthAsked}
        IN  /\ Len(rows) = Cardinality(present)
            /\ \A c \in present :
                  LET members == {k \in InMonthAsked : txns[k].category_id = c}
                  IN  \E i \in 1..Len(rows) :
                         /\ rows[i].category_id = c
                         /\ rows[i].amount = SumOver(abs, members)
                         /\ rows[i].count = Cardinality(members)
            /\ \A i \in 1..(Len(rows) - 1) : rows[i].amount >= rows[i + 1].amount
            /\ SumSeq([i \in 1..Len(rows) |-> rows[i].count]) = resp.transaction_count

\* C16's case: two entries; the one posted last is sorted before an entry of
\* two transactions
C16_Witness ==
    /\ MonthlyAnswered
    /\ Len(resp.by_category) = 2
    /\ resp.by_category[1].count = 1
    /\ resp.by_category[2].count = 2
    /\ GroupName(Len(txns)) = resp.by_category[1].category_name

\* The transactions of the month without category, and those of the stored
\* category named "Uncategorized"
WithoutCategory == {k \in InMonthAsked : txns[k].category_id = NullId}

OfUncategorized ==
    {k \in InMonthAsked : /\ txns[k].category_id \in DOMAIN cats
                          /\ cats[txns[k].category_id].name = "Uncategorized"}

\* C17 as stated: when a month holds transactions without category and
\* transactions of the stored category "Uncategorized", by_category reports
\* them in two entries with their own amounts and counts.
C17_UncategorizedNotMerged ==
    (MonthlyAnswered /\ WithoutCategory # {} /\ OfUncategorized # {}) =>
        LET rows == resp.by_category
            abs == [k \in Stored |-> Abs(txns[k].amount)]
        IN  \E i, j \in 1..Len(rows) :
                /\ i # j
                /\ rows[i].category_id = NullId
                /\ rows[i].amount = SumOver(abs, WithoutCategory)
                /\ rows[i].count = Cardinality(WithoutCategory)
                /\ rows[j].category_id \in DOMAIN cats
                /\ cats[rows[j].category_id].name = "Uncategorized"
                /\ rows[j].amount = SumOver(abs, OfUncategorized)
                /\ rows[j].count = Cardinality(OfUncategorized)

(***************************************************************************)
(* The category report's specification: transactions of two categories     *)
(* around the first of February 2025, reports of a stored, a deleted and a *)
(* never stored category, and the other reports beside them.  The amounts  *)
(* are multiples of 4 cents: the average of up to four of them is never    *)
(* an exact half cent.                                                     *)
(***************************************************************************)
MaxCatTxns == 3

CatDates == {Date(2025, 1, 31), Date(2025, 2, 1), Date(2025, 3, 5)}

CatChoices ==
    {[category_id |-> 1, amount |-> -4], [category_id |-> 1, amount |-> 8],
     [category_id |-> 5, amount |-> -4]}

\* The category reported on, and an id no category ever had
CatIdsAsked == {1, 0}

\* start and end: absent, or the first of February
CatBounds == {None, Date(2025, 2, 1)}

CatPostTransaction ==
    /\ Len(txns) < MaxCatTxns
    /\ \E d \in CatDates, ch \in CatChoices :
          CreateTransaction(d, ch.amount, ch.category_id)

CatReport ==
    \E id \in CatIdsAsked, start \in CatBounds, end \in CatBounds :
        GetCategoryReport(id, start, end)

CatDeleteCategory == DeleteCategory(1)

CatOtherReports ==
    \/ GetDashboard
    \/ GetTaxSummary(2025)
    \/ GetMonthlyReport(2025, 2)

NextCat == CatPostTransaction \/ CatReport \/ CatDeleteCategory \/ CatOtherReports

SpecCat == Init /\ [][NextCat]_vars

(***************************************************************************)
(* Category report properties                                              *)
(***************************************************************************)
CategoryAsked == resp # None /\ resp.kind = "category_report"

CategoryAnswered == CategoryAsked /\ resp.status = 200

ReportKinds == {"dashboard", "tax_summary", "monthly", "category_report"}

\* The stored transactions of the category asked for whose date lies in the
\* range asked for
Matching ==
    {k \in Stored : /\ txns[k].category_id = req.category_id
                    /\ req.start # None => ~DateLess(txns[k].date, req.start)
                    /\ req.end # None => ~DateLess(req.end, txns[k].date)}

\* C18: a report is answered not-found exactly when it is the category
\* report of an id that is not stored; the report of a stored category
\* without matching transactions is answered with empty figures.
C18_NotFoundOnlyForMissingCategory ==
    (resp # None /\ resp.kind \in ReportKinds) =>
        /\ resp.status = 404 <=> (CategoryAsked /\ req.category_id \notin DOMAIN cats)
        /\ resp.status \in {200, 404}
        /\ (CategoryAnswered /\ Matching = {}) =>
              /\ resp.transaction_count = 0
              /\ resp.total_amount = 0
              /\ resp.average_transaction = 0
              /\ resp.monthly_breakdown = <<>>
              /\ resp.transactions = <<>>

\* C18's case: a stored category whose transactions all lie outside the range
C18_Witness ==
    /\ CategoryAnswered
    /\ Matching = {}
    /\ \E k \in Stored : txns[k].category_id = req.category_id

\* C18's other case: the category was deleted and its report is not found
C18_WitnessDeleted ==
    /\ CategoryAsked
    /\ resp.status = 404
    /\ req.category_id = 1

\* C19: the report of a stored category covers exactly its transactions in
\* the inclusive range; total_amount and transaction_count are their
\* abs(amount) sum and number; the breakdown has one row per month, in
\* chronological order, whose amounts and counts add up to the totals; the
\* transactions are listed by ascending date.
C19_CategoryReport ==
    CategoryAnswered =>
        LET abs == [k \in Stored |-> Abs(txns[k].amount)]
            rows == resp.monthly_breakdown
            list == resp.transactions
        IN  /\ resp.total_amount = SumOver(abs, Matching)
            /\ resp.transaction_count = Cardinality(Matching)
            /\ \A i \in 1..Len(rows) :
                  LET members == {k \in Matching : /\ txns[k].date.year = rows[i].year
                                                   /\ txns[k].date.month = rows[i].month}
                  IN  /\ members # {}
                      /\ rows[i].amount = SumOver(abs, members)
                      /\ rows[i].count = Cardinality(members)
            /\ \A i \in 1..(Len(rows) - 1) :
                  12 * rows[i].year + rows[i].month < 12 * rows[i + 1].year + rows[i + 1].month
            /\ SumSeq([i \in 1..Len(rows) |-> rows[i].amount]) = resp.total_amount
            /\ SumSeq([i \in 1..Len(rows) |-> rows[i].count]) = resp.transaction_count
            /\ Len(list) = Cardinality(Matching)
            /\ {list[i].id : i \in 1..Len(list)} = {txns[k].id : k \in Matching}
            /\ \A i \in 1..(Len(list) - 1) : ~DateLess(list[i + 1].date, list[i].date)

\* C19's case: both bounds given, a transaction on the bound listed, one
\* of the category outside the bounds and one of another category inside
C19_Witness ==
    /\ CategoryAnswered
    /\ req.start # None /\ req.end # None
    /\ Matching # {}
    /\ \E k \in Stored \ Matching : txns[k].category_id = req.category_id
    /\ \E k \in Stored \ Matching : txns[k].date = req.start

\* C19's other case: no bound given, transactions posted out of date order
\* and listed in date order over two months
C19_WitnessReordered ==
    /\ CategoryAnswered
    /\ req.start = None /\ req.end = None
    /\ Len(resp.monthly_breakdown) = 2
    /\ Len(resp.transactions) = 3
    /\ resp.transactions[1].id = 3

(***************************************************************************)
(* The order of the rows.  The dashboard and the monthly report read the   *)
(* transactions with a query that has no ORDER BY; the properties below    *)
(* compare the answer with the answer to every other order of the same     *)
(* rows.                                                                   *)
(***************************************************************************)
MaxOrderTxns == 3

OrderChoices ==
    {[category_id |-> 1, amount |-> -2], [category_id |-> 5, amount |-> -2],
     [category_id |-> 5, amount |-> -3], [category_id |-> NullId, amount |-> -2],
     [category_id |-> 14, amount |-> -3], [category_id |-> 15, amount |-> 3]}

OrderPostTransaction ==
    /\ Len(txns) < MaxOrderTxns
    /\ \E ch \in OrderChoices : CreateTransaction(StartDate, ch.amount, ch.category_id)

OrderMonthlyReport == GetMonthlyReport(StartDate.year, StartDate.month)

NextOrder == OrderPostTransaction \/ GetDashboard \/ OrderMonthlyReport

SpecOrder == Init /\ [][NextOrder]_vars

\* Every order of the stored rows
Reorderings ==
    LET n == Len(txns)
        perms == {p \in [1..n -> 1..n] : \A i, j \in 1..n : i # j => p[i] # p[j]}
    IN  {[i \in 1..n |-> txns[p[i]]] : p \in perms}

\* The dashboard and the monthly report the handler computes from rows
DashboardOf(rows) == Dashboard(rows, rows, cats, rows, today)

MonthlyOf(rows) == MonthlyReport(MonthTxns(rows, req.year, req.month), cats, req.year, req.month)

DistinctAmounts(list) ==
    \A i, j \in 1..Len(list) : i # j => list[i].amount # list[j].amount

\* A by_category entry without its category_id
Grouped(row) ==
    [category_name |-> row.category_name, type |-> row.type,
     amount |-> row.amount, count |-> row.count]

C20_WitnessMonthly ==
    /\ MonthlyAnswered
    /\ Len(resp.by_category) >= 2
    /\ ~DistinctAmounts(resp.by_category)

(***************************************************************************)
(* PUT and DELETE /transactions/{id}                                       *)
(***************************************************************************)

HasTransaction(stored, transaction_id) ==
    \E k \in 1..Len(stored) : stored[k].id = transaction_id

\* The stored row with the given id
TransactionById(stored, transaction_id) ==
    stored[CHOOSE k \in 1..Len(stored) : stored[k].id = transaction_id]

\* Fault: the time of the update is not recorded
UpdatedTransactionUnstamped(txn, data) ==
    [f \in DOMAIN txn |-> IF f \in DOMAIN data THEN data[f] ELSE txn[f]]

\* update_transaction: setattr(txn, field, value) for each field the request
\* sets (model_dump(exclude_unset=True)), then txn.updated_at = utcnow()
UpdatedTransaction(txn, data) ==
    [f \in DOMAIN txn |->
        IF f = "updated_at" THEN txn.updated_at + 1
        ELSE IF f \in DOMAIN data THEN data[f] ELSE txn[f]]

\* The transactions table after the update of one row is committed
RowsAfterUpdate(stored, transaction_id, data) ==
    [k \in 1..Len(stored) |->
        IF stored[k].id = transaction_id
        THEN UpdatedTransaction(stored[k], data) ELSE stored[k]]

RECURSIVE RowsAfterDelete(_, _)
\* The transactions table after db.delete(txn) is committed
RowsAfterDelete(stored, transaction_id) ==
    IF stored = <<>> THEN <<>>
    ELSE LET before == RowsAfterDelete(SubSeq(stored, 1, Len(stored) - 1), transaction_id)
             txn == stored[Len(stored)]
         IN  IF txn.id = transaction_id THEN before ELSE Append(before, txn)

\* Fault: a category_id of 0 is not looked up
UpdateNamesMissingCategoryTruthy(data, c) ==
    /\ "category_id" \in DOMAIN data
    /\ data.category_id # NullId
    /\ data.category_id # 0
    /\ data.category_id \notin DOMAIN c

\* update_transaction: "category_id" in update_data, it is not None and no
\* category has that id
UpdateNamesMissingCategory(data, c) ==
    /\ "category_id" \in DOMAIN data
    /\ data.category_id # NullId
    /\ data.category_id \notin DOMAIN c

\* PUT /transactions/{transaction_id}: update_transaction(transaction_id, data)
UpdateTransaction(transaction_id, data) ==
    /\ req' = [kind |-> "update_transaction", transaction_id |-> transaction_id,
               data |-> data]
    /\ prev' = None
    /\ IF ~HasTransaction(txns, transaction_id)
       THEN /\ resp' = [kind |-> "update_transaction", status |-> 404,
                        detail |-> "Transaction not found"]
            /\ UNCHANGED txns
       ELSE IF UpdateNamesMissingCategory(data, cats)
       THEN /\ resp' = [kind |-> "update_transaction", status |-> 404,
                        detail |-> "Category not found"]
            /\ UNCHANGED txns
       ELSE /\ txns' = RowsAfterUpdate(txns, transaction_id, data)
            /\ resp' = [kind |-> "update_transaction", status |-> 200]
    /\ UNCHANGED <<cats, today>>
    /\ UNCHANGED others

\* DELETE /transactions/{transaction_id}: delete_transaction(transaction_id)
DeleteTransaction(transaction_id) ==
    /\ req' = [kind |-> "delete_transaction", transaction_id |-> transaction_id]
    /\ prev' = None
    /\ IF ~HasTransaction(txns, transaction_id)
       THEN /\ resp' = [kind |-> "delete_transaction", status |-> 404]
            /\ UNCHANGED txns
       ELSE /\ txns' = RowsAfterDelete(txns, transaction_id)
            /\ resp' = [kind |-> "delete_transaction", status |-> 204]
    /\ UNCHANGED <<cats, today>>
    /\ UNCHANGED others

(***************************************************************************)
(* Aggregation calls while other requests commit.  The handlers are sync   *)
(* functions, which the server runs on worker threads: between two         *)
(* statements of one call another request can commit.  A call in progress  *)
(* keeps what it has read so far in req; the requests of the other threads *)
(* appear only through what they commit.                                   *)
(***************************************************************************)

\* Whether the statements of one session all read the store as it was when
\* the session's first statement ran (TRUE) or each reads what is committed
\* when it runs (FALSE).  The engine and session are made in app/database.py.
IsolationOutcomes == BOOLEAN

\* What a later statement of the call in progress reads
Visible(call) == IF call.isolated THEN call.begin ELSE txns

Running == req # None /\ req.kind \in {"dashboard_running", "tax_summary_running"}

\* get_dashboard up to all_txns = db.query(Transaction).all() and the loop
\* over all_txns that follows it
DashboardQueryAll ==
    /\ ~Running
    /\ \E isolated \in IsolationOutcomes :
          req' = [kind |-> "dashboard_running", pc |-> "count",
                  isolated |-> isolated,
                  begin |-> IF isolated THEN txns ELSE <<>>,
                  all_txns |-> txns, counted |-> <<>>]
    /\ resp' = None
    /\ prev' = None
    /\ UNCHANGED <<cats, txns, today>>
    /\ UNCHANGED others

\* get_dashboard: the query of unclassified_count
DashboardQueryCount ==
    /\ Running
    /\ req.kind = "dashboard_running"
    /\ req.pc = "count"
    /\ req' = [req EXCEPT !.pc = "recent", !.counted = Visible(req)]
    /\ UNCHANGED <<resp, prev, cats, txns, today>>
    /\ UNCHANGED others

\* get_dashboard: the loops over all_txns, the query of the recent
\* transactions and the return
DashboardQueryRecent ==
    /\ Running
    /\ req.kind = "dashboard_running"
    /\ req.pc = "recent"
    /\ resp' = Dashboard(req.all_txns, req.counted, cats, Visible(req), today)
    /\ req' = [kind |-> "dashboard", isolated |-> req.isolated,
               all_txns |-> req.all_txns]
    /\ UNCHANGED <<prev, cats, txns, today>>
    /\ UNCHANGED others

\* tax_summary_report up to txns = db.query(Transaction).filter(...).all()
\* and the loop over txns
TaxQueryYear(year) ==
    /\ ~Running
    /\ \E isolated \in IsolationOutcomes :
          req' = [kind |-> "tax_summary_running", year |-> year,
                  isolated |-> isolated,
                  begin |-> IF isolated THEN txns ELSE <<>>,
                  selected |-> TaxYearTxns(txns, year)]
    /\ resp' = None
    /\ prev' = None
    /\ UNCHANGED <<cats, txns, today>>
    /\ UNCHANGED others

\* tax_summary_report: the query of unclassified_count and the return
TaxQueryCount ==
    /\ Running
    /\ req.kind = "tax_summary_running"
    /\ resp' = TaxSummary(req.selected, Visible(req), cats, req.year)
    /\ req' = [kind |-> "tax_summary", year |-> req.year,
               isolated |-> req.isolated, selected |-> req.selected]
    /\ UNCHANGED <<prev, cats, txns, today>>
    /\ UNCHANGED others

\* create_transaction of another thread commits
ConcurrentCreate(date, amount, category_id) ==
    /\ category_id = NullId \/ category_id \in DOMAIN cats
    /\ txns' = Append(txns, NewTransaction(txns, date, amount, category_id, "manual"))
    /\ UNCHANGED <<req, resp, prev, cats, today>>
    /\ UNCHANGED others

\* update_transaction of another thread commits
ConcurrentUpdate(transaction_id, data) ==
    /\ HasTransaction(txns, transaction_id)
    /\ ~UpdateNamesMissingCategory(data, cats)
    /\ txns' = RowsAfterUpdate(txns, transaction_id, data)
    /\ UNCHANGED <<req, resp, prev, cats, today>>
    /\ UNCHANGED others

\* delete_transaction of another thread commits
ConcurrentDelete(transaction_id) ==
    /\ HasTransaction(txns, transaction_id)
    /\ txns' = RowsAfterDelete(txns, transaction_id)
    /\ UNCHANGED <<req, resp, prev, cats, today>>
    /\ UNCHANGED others

MaxSnapTxns == 2

MaxSnapUpdates == 1

\* What the other threads post: a row without category and one of Software
SnapChoices ==
    {[category_id |-> NullId, amount |-> 2], [category_id |-> 1, amount |-> 3]}

\* What the other threads change in a row
SnapUpdates == {[category_id |-> NullId]}

SnapCreate ==
    /\ NextTransactionId(txns) <= MaxSnapTxns
    /\ \E ch \in SnapChoices : ConcurrentCreate(StartDate, ch.amount, ch.category_id)

SnapUpdate ==
    \E k \in 1..Len(txns), data \in SnapUpdates :
        /\ txns[k].updated_at < MaxSnapUpdates
        /\ ConcurrentUpdate(txns[k].id, data)

SnapDelete == \E k \in 1..Len(txns) : ConcurrentDelete(txns[k].id)

SnapTaxQueryYear == TaxQueryYear(StartDate.year)

NextSnapshot ==
    \/ SnapCreate \/ SnapUpdate \/ SnapDelete
    \/ DashboardQueryAll \/ DashboardQueryCount \/ DashboardQueryRecent
    \/ SnapTaxQueryYear \/ TaxQueryCount

SpecSnapshot == Init /\ [][NextSnapshot]_vars

(***************************************************************************)
(* Snapshot property                                                       *)
(***************************************************************************)

\* C21: every figure of one dashboard or tax summary response is derived
\* from the same set of transactions, the one its totals were summed from,
\* whatever other requests commit while the call runs: the response is the
\* one computed from that set alone, so its unclassified_count is the
\* number of rows without category among the rows summed
C21_OneSnapshotPerCall ==
    /\ (DashboardAnswered /\ req.kind = "dashboard")
          => resp = Dashboard(req.all_txns, req.all_txns, cats, req.all_txns, today)
    /\ (TaxAnswered /\ req.kind = "tax_summary")
          => /\ resp = TaxSummary(req.selected, req.selected, cats, req.year)
             /\ resp.unclassified_count = UnclassifiedCount(req.selected)

(***************************************************************************)
(* POST and PUT /categories                                                *)
(***************************************************************************)

\* Category.id of the next row inserted
NextCategoryId(c) == IF DOMAIN c = {} THEN 1 ELSE 1 + Max(DOMAIN c)

\* Fault: the name of a new category is not looked up
NameTakenNever(c, name) == FALSE

\* create_category: db.query(Category).filter(Category.name == data.name).first()
NameTaken(c, name) == \E i \in DOMAIN c : c[i].name = name

\* Category.name is unique=True: db.commit() refuses a row whose name
\* another row has
BreaksUnique(c, category_id, name) ==
    \E i \in DOMAIN c \ {category_id} : c[i].name = name

\* create_category: data.parent_id is truthy and names no category
ParentMissing(c, parent_id) ==
    parent_id # NullId /\ parent_id # 0 /\ parent_id \notin DOMAIN c

\* POST /categories: create_category(data)
CreateCategory(data) ==
    LET id == NextCategoryId(cats)
    IN  /\ req' = [kind |-> "create_category", data |-> data]
        /\ prev' = None
        /\ IF NameTaken(cats, data.name)
           THEN /\ resp' = [kind |-> "create_category", status |-> 409]
                /\ UNCHANGED cats
           ELSE IF ParentMissing(cats, data.parent_id)
           THEN /\ resp' = [kind |-> "create_category", status |-> 404]
                /\ UNCHANGED cats
           ELSE \E enforced \in ForeignKeyOutcomes(data.parent_id, cats) :
                   IF enforced \/ BreaksUnique(cats, id, data.name)
                   THEN /\ resp' = [kind |-> "create_category", status |-> 500]
                        /\ UNCHANGED cats
                   ELSE /\ cats' = [i \in DOMAIN cats \cup {id} |->
                                      IF i = id THEN data ELSE cats[i]]
                        /\ resp' = [kind |-> "create_category", status |-> 201]
        /\ UNCHANGED <<txns, today>>
        /\ UNCHANGED others

\* update_category: setattr(cat, field, value) for each field the request sets
UpdatedCategory(cat, data) ==
    [f \in DOMAIN cat |-> IF f \in DOMAIN data THEN data[f] ELSE cat[f]]

\* PUT /categories/{category_id}: update_category(category_id, data)
UpdateCategory(category_id, data) ==
    /\ req' = [kind |-> "update_category", category_id |-> category_id,
               data |-> data]
    /\ prev' = None
    /\ IF category_id \notin DOMAIN cats
       THEN /\ resp' = [kind |-> "update_category", status |-> 404]
            /\ UNCHANGED cats
       ELSE LET cat == UpdatedCategory(cats[category_id], data)
            IN  \E enforced \in ForeignKeyOutcomes(cat.parent_id, cats) :
                   IF enforced \/ BreaksUnique(cats, category_id, cat.name)
                   THEN /\ resp' = [kind |-> "update_category", status |-> 500]
                        /\ UNCHANGED cats
                   ELSE /\ cats' = [cats EXCEPT ![category_id] = cat]
                        /\ resp' = [kind |-> "update_category", status |-> 200]
    /\ UNCHANGED <<txns, today>>
    /\ UNCHANGED others

(***************************************************************************)
(* The categories' specification.  Of the seeded categories the first two  *)
(* are left (the others were deleted through DELETE /categories/{id});     *)
(* categories are created, updated and deleted.                            *)
(***************************************************************************)

MaxNewCategories == 1

KeptCategories == {1, 2}

InitCategory ==
    /\ cats = [i \in KeptCategories |-> SeededCategories[i]]
    /\ txns = <<>>
    /\ today = StartDate
    /\ req = None
    /\ resp = None
    /\ prev = None
    /\ budgets = <<>>
    /\ accounts = <<>>
    /\ reports = <<>>

\* Bodies of POST /categories: a type outside income and expense, a
\* parent_id of 0 and one that names no category
CategoryCreates ==
    [name : {"Tools"}, type : {"expense", "transfer"},
     parent_id : {NullId, 0, 1, 99}, tax_category : {NullStr}]

\* Bodies of PUT /categories/{id}, each setting one field
CategoryUpdates ==
    {[type |-> "transfer"], [parent_id |-> 1], [parent_id |-> 2],
     [parent_id |-> NullId]}

\* The ids of the kept categories and of the new ones
CategoryTargets == 1..(Cardinality(KeptCategories) + MaxNewCategories)

CategoryCreate ==
    /\ NextCategoryId(cats) \in CategoryTargets
    /\ \E data \in CategoryCreates : CreateCategory(data)

CategoryUpdate ==
    \E id \in CategoryTargets, data \in CategoryUpdates : UpdateCategory(id, data)

CategoryDelete == \E id \in CategoryTargets : DeleteCategory(id)

NextCategory == CategoryCreate \/ CategoryUpdate \/ CategoryDelete

SpecCategory == InitCategory /\ [][NextCategory]_vars

(***************************************************************************)
(* Category properties                                                     *)
(***************************************************************************)

\* C23: after any sequence of category create and update requests the type
\* of every stored category is income or expense
C23_TypeIsIncomeOrExpense ==
    \A i \in DOMAIN cats : cats[i].type \in {"income", "expense"}

(***************************************************************************)
(* The names' specification: categories are created with a stored and with *)
(* a new name, renamed and deleted                                         *)
(***************************************************************************)

NameCreates ==
    [name : {"Software & SaaS", "Tools"}, type : {"expense"},
     parent_id : {NullId}, tax_category : {NullStr}]

NameUpdates == {[name |-> "Cloud Infrastructure"], [name |-> "Tools"], [name |-> "Gear"]}

NameCreate ==
    /\ NextCategoryId(cats) \in CategoryTargets
    /\ \E data \in NameCreates : CreateCategory(data)

NameUpdate ==
    \E id \in CategoryTargets, data \in NameUpdates : UpdateCategory(id, data)

NextNames == NameCreate \/ NameUpdate \/ CategoryDelete

SpecNames == InitCategory /\ [][NextNames]_vars

\* The request of the given kind was just answered with the given status
Answered(kind, status) ==
    /\ resp # None
    /\ resp.kind = kind
    /\ resp.status = status

\* Some stored category other than the given one has the name
NamedByAnother(category_id, name) ==
    \E i \in DOMAIN cats \ {category_id} : cats[i].name = name

\* C24: no two stored categories have the same name; creating a category
\* with a stored name is answered 409 and changes nothing, and an update
\* that renames a category to another category's name changes nothing
C24_NamesAreUnique ==
    /\ [](\A i, j \in DOMAIN cats : cats[i].name = cats[j].name => i = j)
    /\ [][/\ (\E data \in NameCreates :
                  CreateCategory(data) /\ NamedByAnother(NullId, data.name))
              => Answered("create_category", 409)' /\ UNCHANGED <<cats, txns, budgets>>
          /\ (\E id \in DOMAIN cats, data \in NameUpdates :
                  UpdateCategory(id, data) /\ NamedByAnother(id, data.name))
              => UNCHANGED <<cats, txns, budgets>>]_vars

\* Witness for C24: POST /categories with the stored name "Software & SaaS"
\* was answered 409 while the store holds that category and a created one
C24_Witness ==
    /\ Answered("create_category", 409)
    /\ req.data.name = "Software & SaaS"
    /\ NamedByAnother(NullId, "Software & SaaS")
    /\ NamedByAnother(NullId, "Tools")

\* A rename to another category's name was answered and left both rows
C24_WitnessRename ==
    /\ Answered("update_category", 500)
    /\ req.category_id \in DOMAIN cats
    /\ NamedByAnother(req.category_id, req.data.name)
    /\ cats[req.category_id].name # req.data.name

\* Following parent_id from category i for at most n steps reaches j
RECURSIVE ReachesParent(_, _, _, _)
ReachesParent(c, i, j, n) ==
    /\ n > 0
    /\ i \in DOMAIN c
    /\ c[i].parent_id # NullId
    /\ \/ c[i].parent_id = j
       \/ ReachesParent(c, c[i].parent_id, j, n - 1)

\* C25: the parent_id references form a tree: every non-null parent_id
\* names a stored category, no category is its own parent, and following
\* parent_id from a category never returns to it
C25_ParentsFormTree ==
    /\ \A i \in DOMAIN cats :
          cats[i].parent_id # NullId => cats[i].parent_id \in DOMAIN cats
    /\ \A i \in DOMAIN cats : cats[i].parent_id # i
    /\ \A i \in DOMAIN cats : ~ReachesParent(cats, i, i, Cardinality(DOMAIN cats))

(***************************************************************************)
(* POST /transactions/import.  The rows are those of a CSV file: every     *)
(* value is the text of its cell.                                          *)
(***************************************************************************)

\* The value of a decimal digit, -1 for any other character
Digit(c) ==
    CASE c = "0" -> 0 [] c = "1" -> 1 [] c = "2" -> 2 [] c = "3" -> 3
      [] c = "4" -> 4 [] c = "5" -> 5 [] c = "6" -> 6 [] c = "7" -> 7
      [] c = "8" -> 8 [] c = "9" -> 9 [] OTHER -> -1

IsDigits(s) == Len(s) > 0 /\ \A i \in 1..Len(s) : Digit(SubSeq(s, i, i)) >= 0

RECURSIVE Number(_)
\* The number a string of digits denotes
Number(s) ==
    IF Len(s) = 0 THEN 0
    ELSE 10 * Number(SubSeq(s, 1, Len(s) - 1)) + Digit(SubSeq(s, Len(s), Len(s)))

\* What a conversion gives: a value, or the exception it raises
Parsed(value) == [ok |-> TRUE, value |-> value]

Raised == [ok |-> FALSE, value |-> 0]

\* int(raw_cat) if raw_cat not in (None, "", "null") else None
ParseCategoryId(raw_cat) ==
    IF raw_cat \in {"", "null"} THEN Parsed(NullId)
    ELSE IF IsDigits(raw_cat) THEN Parsed(Number(raw_cat))
    ELSE Raised

DaysInMonth(year, month) ==
    IF month = 2
    THEN (IF year % 4 = 0 /\ (year % 100 # 0 \/ year % 400 = 0) THEN 29 ELSE 28)
    ELSE IF month \in {4, 6, 9, 11} THEN 30 ELSE 31

\* datetime.strptime(value, fmt).date() for a text of ten characters whose
\* year stands at position y, month at m, day at d and separators at the
\* two positions of seps
Strptime(value, sep, seps, y, m, d) ==
    LET year == SubSeq(value, y, y + 3)
        month == SubSeq(value, m, m + 1)
        day == SubSeq(value, d, d + 1)
    IN  IF /\ Len(value) = 10
           /\ \A p \in seps : SubSeq(value, p, p) = sep
           /\ IsDigits(year) /\ IsDigits(month) /\ IsDigits(day)
           /\ Number(year) >= 1
           /\ Number(month) \in 1..12
           /\ Number(day) \in 1..DaysInMonth(Number(year), Number(month))
        THEN Parsed(Date(Number(year), Number(month), Number(day)))
        ELSE Raised

\* _parse_date: the first of %Y-%m-%d, %m/%d/%Y, %d/%m/%Y, %Y/%m/%d that
\* reads the text, ValueError if none does
ParseDate(value) ==
    LET iso == Strptime(value, "-", {5, 8}, 1, 6, 9)
        us == Strptime(value, "/", {3, 6}, 7, 1, 4)
        eu == Strptime(value, "/", {3, 6}, 7, 4, 1)
        ymd == Strptime(value, "/", {5, 8}, 1, 6, 9)
    IN  IF iso.ok THEN iso ELSE IF us.ok THEN us ELSE IF eu.ok THEN eu ELSE ymd

\* float(row.get("amount", 0)) stored in Numeric(14, 2), in cents, for a
\* text of the form [-]digits.dd; ValueError for text that is no number
ParseAmount(value) ==
    LET negative == Len(value) > 0 /\ SubSeq(value, 1, 1) = "-"
        digits == IF negative THEN SubSeq(value, 2, Len(value)) ELSE value
        n == Len(digits)
    IN  IF /\ n >= 4
           /\ SubSeq(digits, n - 2, n - 2) = "."
           /\ IsDigits(SubSeq(digits, 1, n - 3))
           /\ IsDigits(SubSeq(digits, n - 1, n))
        THEN LET cents == 100 * Number(SubSeq(digits, 1, n - 3))
                              + Number(SubSeq(digits, n - 1, n))
             IN  Parsed(IF negative THEN 0 - cents ELSE cents)
        ELSE Raised

\* if cat_id is not None and cat_id not in valid_cat_ids: cat_id = None
KnownCategoryId(cat_id, valid_cat_ids) ==
    IF cat_id \in valid_cat_ids THEN cat_id ELSE NullId

\* The body of the try block for one row: the Transaction it builds, or the
\* exception raised on the way
ImportRow(row, valid_cat_ids) ==
    LET cat_id == ParseCategoryId(row.category_id)
        date == ParseDate(row.date)
        amount == ParseAmount(row.amount)
    IN  IF cat_id.ok /\ date.ok /\ amount.ok
        THEN Parsed([date |-> date.value, amount |-> amount.value,
                     category_id |-> KnownCategoryId(cat_id.value, valid_cat_ids)])
        ELSE Raised

\* Fault: the row index of an error is that of enumerate()
ErrorRowZeroBased(idx) == idx - 1

\* errors.append({"row": idx + 1, ...}) for the row at position idx of 1..n
ErrorRow(idx) == idx

RECURSIVE ImportLoop(_, _, _)
\* for idx, row in enumerate(rows): the counters, the errors and the stored
\* rows with the added ones after the loop
ImportLoop(rows, valid_cat_ids, stored) ==
    IF rows = <<>>
    THEN [imported |-> 0, failed |-> 0, errors |-> <<>>, stored |-> stored]
    ELSE LET before == ImportLoop(SubSeq(rows, 1, Len(rows) - 1), valid_cat_ids, stored)
             row == rows[Len(rows)]
             txn == ImportRow(row, valid_cat_ids)
         IN  IF txn.ok
             THEN [before EXCEPT
                     !.imported = @ + 1,
                     !.stored = Append(@, NewTransaction(@, txn.value.date,
                                    txn.value.amount, txn.value.category_id, "import"))]
             ELSE [before EXCEPT
                     !.failed = @ + 1,
                     !.errors = Append(@, [row |-> ErrorRow(Len(rows)), data |-> row])]

\* POST /transactions/import: import_transactions(file) for a file of rows
ImportTransactions(rows) ==
    LET end == ImportLoop(rows, DOMAIN cats, txns)
    IN  /\ req' = [kind |-> "import", rows |-> rows]
        /\ prev' = None
        /\ txns' = end.stored
        /\ resp' = [kind |-> "import", status |-> 200, imported |-> end.imported,
                    failed |-> end.failed, errors |-> end.errors]
        /\ UNCHANGED <<cats, today>>
        /\ UNCHANGED others

(***************************************************************************)
(* The import's specification: files of a few rows, some of them           *)
(* malformed, are imported; category 1 may be deleted                      *)
(***************************************************************************)

MaxImportRows == 2

MaxImportStored == 2

\* Rows of a file: of a stored category, of one never stored, without
\* category, with a date that does not exist, with an amount and with a
\* category_id that is no number
ImportRows ==
    {[date |-> "2025-06-15", amount |-> "-0.02", category_id |-> "1"],
     [date |-> "06/15/2025", amount |-> "0.03", category_id |-> "99"],
     [date |-> "15/06/2025", amount |-> "0.05", category_id |-> ""],
     [date |-> "2025-02-30", amount |-> "0.02", category_id |-> "1"],
     [date |-> "2025-06-15", amount |-> "abc", category_id |-> "1"],
     [date |-> "2025-06-15", amount |-> "0.02", category_id |-> "abc"]}

ImportFiles == UNION {[1..n -> ImportRows] : n \in 0..MaxImportRows}

ImportFile ==
    \E rows \in ImportFiles :
        /\ Len(txns) + Len(rows) <= MaxImportStored
        /\ ImportTransactions(rows)

ImportDeleteCategory == DeleteCategory(1)

NextImport == ImportFile \/ ImportDeleteCategory

SpecImport == InitCategory /\ [][NextImport]_vars

(***************************************************************************)
(* Import properties                                                       *)
(***************************************************************************)

\* The positions of the rows of a file for which a Transaction is built
WellFormed(rows) == {i \in 1..Len(rows) : ImportRow(rows[i], DOMAIN cats).ok}

\* The position among the well-formed rows of the well-formed row i
RankAmong(S, i) == Cardinality({j \in S : j <= i})

\* C29: for every import that completes, imported + failed is the number
\* of rows; errors has exactly one entry per failed row, carrying its
\* 1-based index; the stored transactions grow by exactly imported rows,
\* each with source "import"; a row whose category_id names no stored
\* category is stored with category_id null; and every well-formed row is
\* stored whatever the other rows of the file are
C29_ImportAccounting ==
    [][(req'.kind = "import" /\ ImportTransactions(req'.rows)) =>
          LET rows == req'.rows
              good == WellFormed(rows)
              bad == (1..Len(rows)) \ good
              n == Len(txns)
          IN  /\ resp'.imported + resp'.failed = Len(rows)
              /\ resp'.failed = Cardinality(bad)
              /\ Len(resp'.errors) = Cardinality(bad)
              /\ \A i \in bad :
                    Cardinality({k \in 1..Len(resp'.errors) :
                                    resp'.errors[k].row = i}) = 1
              /\ Len(txns') = n + resp'.imported
              /\ SubSeq(txns', 1, n) = txns
              /\ \A k \in (n + 1)..Len(txns') :
                    /\ txns'[k].source = "import"
                    /\ txns'[k].category_id \in DOMAIN cats \cup {NullId}
              /\ \A i \in good :
                    LET txn == txns'[n + RankAmong(good, i)]
                        cat_id == ParseCategoryId(rows[i].category_id).value
                    IN  /\ txn.date = ParseDate(rows[i].date).value
                        /\ txn.amount = ParseAmount(rows[i].amount).value
                        /\ txn.category_id =
                              (IF cat_id \in DOMAIN cats THEN cat_id ELSE NullId)
      ]_vars

\* Witness for C29: a file whose first row is malformed and whose second
\* names a category never stored was imported: one row failed with index 1,
\* one was stored without category
C29_Witness ==
    /\ Answered("import", 200)
    /\ Len(req.rows) = 2
    /\ req.rows[1].date = "2025-02-30"
    /\ req.rows[2].category_id = "99"
    /\ resp.imported = 1
    /\ resp.failed = 1
    /\ resp.errors[1].row = 1
    /\ txns[Len(txns)].category_id = NullId
    /\ txns[Len(txns)].source = "import"

(***************************************************************************)
(* The references' specification: transactions are created, updated,      *)
(* deleted and imported with the ids of stored and of missing categories,  *)
(* and categories are created, renamed and deleted                         *)
(***************************************************************************)

MaxRefTxns == 2

MaxRefUpdates == 1

\* category_id of the bodies sent: none, 0, a stored one, one never stored
RefCategoryIds == {NullId, 0, 1, 99}

RefUpdates == {[category_id |-> c] : c \in RefCategoryIds} \cup {[amount |-> 7]}

RefFiles ==
    {<<[date |-> "2025-06-15", amount |-> "-0.02", category_id |-> c]>> :
        c \in {"1", "99"}}

RefCreate ==
    /\ NextTransactionId(txns) <= MaxRefTxns
    /\ \E c \in RefCategoryIds : CreateTransaction(StartDate, 2, c)

RefUpdate ==
    \E id \in 1..MaxRefTxns, data \in RefUpdates :
        /\ HasTransaction(txns, id)
              => TransactionById(txns, id).updated_at < MaxRefUpdates
        /\ UpdateTransaction(id, data)

RefDelete == \E id \in 1..MaxRefTxns : DeleteTransaction(id)

RefImport ==
    /\ NextTransactionId(txns) <= MaxRefTxns
    /\ \E rows \in RefFiles : ImportTransactions(rows)

RefCategoryCreate ==
    /\ NextCategoryId(cats) \in CategoryTargets
    /\ CreateCategory([name |-> "Tools", type |-> "expense", parent_id |-> NullId,
                       tax_category |-> NullStr])

RefCategoryUpdate == UpdateCategory(1, [name |-> "Gear"])

RefCategoryDelete == \E id \in {1, 2} : DeleteCategory(id)

NextRefs ==
    \/ RefCreate \/ RefUpdate \/ RefDelete \/ RefImport
    \/ RefCategoryCreate \/ RefCategoryUpdate \/ RefCategoryDelete

SpecRefs == InitCategory /\ [][NextRefs]_vars

(***************************************************************************)
(* Reference properties                                                    *)
(***************************************************************************)

\* C22: every stored transaction has a null category_id or the id of a
\* stored category
C22_TransactionsReferenceStoredCategories ==
    \A k \in 1..Len(txns) :
        txns[k].category_id = NullId \/ txns[k].category_id \in DOMAIN cats

\* The category_id is an integer that names no stored category
NamesNoCategory(category_id) ==
    category_id # NullId /\ category_id \notin DOMAIN cats

\* C28: a transaction create or update whose category_id names no stored
\* category, 0 included, is answered 404 and leaves every stored record
\* unchanged, updated_at of the target included
C28_MissingCategoryIsNotFound ==
    [][/\ (\E c \in RefCategoryIds :
              CreateTransaction(StartDate, 2, c) /\ NamesNoCategory(c))
          => /\ Answered("create_transaction", 404)'
             /\ UNCHANGED <<cats, txns, budgets, accounts, reports>>
       /\ (\E id \in 1..MaxRefTxns, data \in RefUpdates :
              /\ UpdateTransaction(id, data)
              /\ HasTransaction(txns, id)
              /\ "category_id" \in DOMAIN data
              /\ NamesNoCategory(data.category_id))
          => /\ Answered("update_transaction", 404)'
             /\ UNCHANGED <<cats, txns, budgets, accounts, reports>>
      ]_vars

\* C28, the update half alone: an update whose category_id names no stored
\* category is answered 404 and changes nothing
C28_UpdateWithMissingCategoryIsNotFound ==
    [][(\E id \in 1..MaxRefTxns, data \in RefUpdates :
              /\ UpdateTransaction(id, data)
              /\ HasTransaction(txns, id)
              /\ "category_id" \in DOMAIN data
              /\ NamesNoCategory(data.category_id))
          => /\ Answered("update_transaction", 404)'
             /\ UNCHANGED <<cats, txns, budgets, accounts, reports>>
      ]_vars

(***************************************************************************)
(* POST, PUT and DELETE /budgets                                           *)
(***************************************************************************)

\* Budget.id of the next row inserted
NextBudgetId(stored) ==
    IF stored = <<>> THEN 1 ELSE 1 + Max({stored[k].id : k \in 1..Len(stored)})

HasBudget(stored, budget_id) == \E k \in 1..Len(stored) : stored[k].id = budget_id

\* POST /budgets: create_budget(data)
CreateBudget(data) ==
    /\ req' = [kind |-> "create_budget", data |-> data]
    /\ prev' = None
    /\ IF data.category_id \notin DOMAIN cats
       THEN /\ resp' = [kind |-> "create_budget", status |-> 404]
            /\ UNCHANGED budgets
       ELSE /\ budgets' = Append(budgets, [id |-> NextBudgetId(budgets),
                                 category_id |-> data.category_id,
                                 amount |-> data.amount])
            /\ resp' = [kind |-> "create_budget", status |-> 201]
    /\ UNCHANGED <<cats, txns, today, accounts, reports>>

\* PUT /budgets/{budget_id}: update_budget(budget_id, data)
UpdateBudget(budget_id, data) ==
    /\ req' = [kind |-> "update_budget", budget_id |-> budget_id, data |-> data]
    /\ prev' = None
    /\ IF ~HasBudget(budgets, budget_id)
       THEN /\ resp' = [kind |-> "update_budget", status |-> 404,
                        detail |-> "Budget not found"]
            /\ UNCHANGED budgets
       ELSE IF "category_id" \in DOMAIN data /\ data.category_id \notin DOMAIN cats
       THEN /\ resp' = [kind |-> "update_budget", status |-> 404,
                        detail |-> "Category not found"]
            /\ UNCHANGED budgets
       ELSE /\ budgets' = [k \in 1..Len(budgets) |->
                             IF budgets[k].id = budget_id
                             THEN [f \in DOMAIN budgets[k] |->
                                      IF f \in DOMAIN data THEN data[f]
                                      ELSE budgets[k][f]]
                             ELSE budgets[k]]
            /\ resp' = [kind |-> "update_budget", status |-> 200]
    /\ UNCHANGED <<cats, txns, today, accounts, reports>>

\* DELETE /budgets/{budget_id}: delete_budget(budget_id)
DeleteBudget(budget_id) ==
    /\ req' = [kind |-> "delete_budget", budget_id |-> budget_id]
    /\ prev' = None
    /\ IF ~HasBudget(budgets, budget_id)
       THEN /\ resp' = [kind |-> "delete_budget", status |-> 404]
            /\ UNCHANGED budgets
       ELSE /\ budgets' = RowsAfterDelete(budgets, budget_id)
            /\ resp' = [kind |-> "delete_budget", status |-> 204]
    /\ UNCHANGED <<cats, txns, today, accounts, reports>>

(***************************************************************************)
(* The budgets' specification: budgets are created, updated and deleted    *)
(* with the ids of stored and of missing categories, and categories are    *)
(* created, renamed and deleted                                            *)
(***************************************************************************)

MaxBudgets == 2

\* category_id of the bodies sent: 0, two stored ones, one never stored,
\* and null in an update
BudgetCategoryIds == {0, 1, 2, 99}

BudgetUpdates ==
    {[category_id |-> c] : c \in BudgetCategoryIds \cup {NullId}}
        \cup {[amount |-> 5]}

BudgetCreate ==
    /\ NextBudgetId(budgets) <= MaxBudgets
    /\ \E c \in BudgetCategoryIds : CreateBudget([category_id |-> c, amount |-> 3])

BudgetUpdate ==
    \E id \in 1..MaxBudgets, data \in BudgetUpdates : UpdateBudget(id, data)

BudgetDelete == \E id \in 1..MaxBudgets : DeleteBudget(id)

NextBudget ==
    \/ BudgetCreate \/ BudgetUpdate \/ BudgetDelete
    \/ RefCategoryCreate \/ RefCategoryUpdate \/ RefCategoryDelete

SpecBudget == InitCategory /\ [][NextBudget]_vars

(***************************************************************************)
(* Budget properties                                                       *)
(***************************************************************************)

\* C30: every stored budget has the id of a stored category as its
\* category_id; deleting a category that budgets refer to leaves no budget
\* pointing at a missing category
C30_BudgetsReferenceStoredCategories ==
    \A k \in 1..Len(budgets) : budgets[k].category_id \in DOMAIN cats

\* Witness for C30: the deletion of a category that a budget refers to was
\* answered 500; the category and the budget are both still stored
C30_Witness ==
    /\ Answered("delete_category", 500)
    /\ req.category_id \in DOMAIN cats
    /\ \E k \in 1..Len(budgets) : budgets[k].category_id = req.category_id

(***************************************************************************)
(* Authentication (auth.py) and the endpoints of main.py                   *)
(***************************************************************************)

\* os.getenv("GDEV_API_TOKEN", "dev-secret-token") with the variable unset
ExpectedToken == "dev-secret-token"

\* get_api_key: api_key and api_key == expected; a request without the
\* X-API-Key header has api_key None
GetApiKey(api_key) ==
    api_key # NullStr /\ api_key # "" /\ api_key = ExpectedToken

\* The rows root_dashboard shows
RootRecentN == 8

RECURSIVE SumOfType(_, _, _)
\* sum(Transaction.amount) over the transactions joined with the categories
\* of the given type
SumOfType(stored, c, type) ==
    IF stored = <<>> THEN 0
    ELSE LET txn == stored[Len(stored)]
             before == SumOfType(SubSeq(stored, 1, Len(stored) - 1), c, type)
         IN  IF txn.category_id \in DOMAIN c /\ c[txn.category_id].type = type
             THEN before + txn.amount ELSE before

\* root_dashboard: the figures and rows written into the page
RootDashboard(stored, c, a, b) ==
    LET s == SortedRecent(stored)
    IN  [kind |-> "root", status |-> 200,
         tx_count |-> Len(stored),
         cat_count |-> Cardinality(DOMAIN c),
         acct_count |-> Len(a),
         budget_count |-> Len(b),
         income |-> SumOfType(stored, c, "income"),
         expenses |-> Abs(SumOfType(stored, c, "expense")),
         recent |-> [k \in 1..Min({Len(s), RootRecentN}) |->
                        [date |-> s[k].date, amount |-> Abs(s[k].amount),
                         category |-> IF s[k].category_id \in DOMAIN c
                                      THEN c[s[k].category_id].name ELSE NullStr]]]

\* GET /: root_dashboard(); the route has no dependency on get_api_key
GetRoot(api_key) ==
    /\ req' = [kind |-> "request", endpoint |-> "GET /", api_key |-> api_key]
    /\ resp' = RootDashboard(txns, cats, accounts, budgets)
    /\ prev' = None
    /\ UNCHANGED <<cats, txns, today>>
    /\ UNCHANGED others

\* GET /health: health()
GetHealth(api_key) ==
    /\ req' = [kind |-> "request", endpoint |-> "GET /health", api_key |-> api_key]
    /\ resp' = [kind |-> "health", status |-> 200]
    /\ prev' = None
    /\ UNCHANGED <<cats, txns, today>>
    /\ UNCHANGED others

\* A route of the /api/v1 routers: Depends(get_api_key) runs before the
\* handler and raises 401, otherwise the handler runs
Protected(endpoint, api_key, Handler) ==
    IF GetApiKey(api_key)
    THEN Handler
    ELSE /\ req' = [kind |-> "request", endpoint |-> endpoint, api_key |-> api_key]
         /\ resp' = [kind |-> "unauthorized", status |-> 401]
         /\ prev' = None
         /\ UNCHANGED <<cats, txns, today>>
         /\ UNCHANGED others

(***************************************************************************)
(* The authentication's specification: requests with the token, with       *)
(* another key, with an empty key and without key                          *)
(***************************************************************************)

MaxAuthTxns == 3

ApiKeys == {NullStr, "", "wrong-token", ExpectedToken}

\* What is posted: an expense of Software & SaaS, revenue, a row without category
AuthChoices ==
    {[category_id |-> 1, amount |-> -3], [category_id |-> 15, amount |-> 5],
     [category_id |-> NullId, amount |-> -2]}

AuthPostTransaction ==
    /\ Len(txns) < MaxAuthTxns
    /\ \E api_key \in ApiKeys, ch \in AuthChoices :
          Protected("POST /api/v1/transactions", api_key,
                    CreateTransaction(StartDate, ch.amount, ch.category_id))

AuthDeleteTransaction ==
    \E api_key \in ApiKeys, id \in 1..MaxAuthTxns :
        Protected("DELETE /api/v1/transactions", api_key, DeleteTransaction(id))

AuthDashboard ==
    \E api_key \in ApiKeys : Protected("GET /api/v1/dashboard", api_key, GetDashboard)

AuthRoot == \E api_key \in ApiKeys : GetRoot(api_key)

AuthHealth == \E api_key \in ApiKeys : GetHealth(api_key)

NextAuth ==
    \/ AuthPostTransaction \/ AuthDeleteTransaction \/ AuthDashboard
    \/ AuthRoot \/ AuthHealth

SpecAuth == Init /\ [][NextAuth]_vars

(***************************************************************************)
(* Authentication properties                                               *)
(***************************************************************************)

\* The request just answered went to an endpoint other than /health and
\* carried no key or a key other than the token
WithoutValidKey(r) ==
    /\ r # None
    /\ r.kind = "request"
    /\ r.endpoint # "GET /health"
    /\ r.api_key # ExpectedToken

\* C26: a request to any endpoint except /health that carries no key or a
\* non-matching key is answered 401, is given no stored financial data
\* (the response holds nothing but the status) and changes no stored record
C26_KeyRequiredExceptHealth ==
    /\ [](WithoutValidKey(req) => resp = [kind |-> "unauthorized", status |-> 401])
    /\ [][WithoutValidKey(req') => UNCHANGED <<cats, txns, budgets, accounts, reports>>]_vars

\* C26, the routers' half alone: a request to an /api/v1 endpoint without
\* the token is answered 401 with nothing but the status, and changes nothing
C26_RoutersRequireKey ==
    /\ []((WithoutValidKey(req) /\ req.endpoint # "GET /")
             => resp = [kind |-> "unauthorized", status |-> 401])
    /\ [][WithoutValidKey(req') => UNCHANGED <<cats, txns, budgets, accounts, reports>>]_vars

(***************************************************************************)
(* Startup: lifespan creates the tables and calls seed_all (seed.py)       *)
(***************************************************************************)

\* The sample transactions of seed_all: date, amount in cents, the name of
\* the category (NullStr for category_id=None), source
SAMPLE_TRANSACTIONS == <<
    [date |-> Date(2025, 1, 3),  amount |-> -9900,    category |-> "Software & SaaS",         source |-> "manual"],
    [date |-> Date(2025, 1, 5),  amount |-> -123456,  category |-> "Cloud Infrastructure",    source |-> "manual"],
    [date |-> Date(2025, 1, 8),  amount |-> -96000,   category |-> "Software & SaaS",         source |-> "manual"],
    [date |-> Date(2025, 1, 10), amount |-> 1250000,  category |-> "Revenue",                 source |-> "manual"],
    [date |-> Date(2025, 1, 14), amount |-> -48700,   category |-> "Travel & Transportation", source |-> "manual"],
    [date |-> Date(2025, 1, 15), amount |-> -34250,   category |-> "Meals & Entertainment",   source |-> "manual"],
    [date |-> Date(2025, 1, 18), amount |-> -210000,  category |-> "Marketing & Advertising", source |-> "manual"],
    [date |-> Date(2025, 1, 22), amount |-> -249900,  category |-> "Hardware & Equipment",    source |-> "manual"],
    [date |-> Date(2025, 1, 28), amount |-> -150000,  category |-> "Professional Services",   source |-> "manual"],
    [date |-> Date(2025, 1, 31), amount |-> -12845,   category |-> "Office Supplies",         source |-> "manual"],
    [date |-> Date(2025, 2, 3),  amount |-> 875000,   category |-> "Consulting Income",       source |-> "manual"],
    [date |-> Date(2025, 2, 5),  amount |-> -2000,    category |-> "Cloud Infrastructure",    source |-> "manual"],
    [date |-> Date(2025, 2, 10), amount |-> -57600,   category |-> "Software & SaaS",         source |-> "manual"],
    [date |-> Date(2025, 2, 15), amount |-> -87500,   category |-> "Travel & Transportation", source |-> "manual"],
    [date |-> Date(2025, 2, 20), amount |-> -21580,   category |-> "Meals & Entertainment",   source |-> "manual"],
    [date |-> Date(2025, 3, 1),  amount |-> -45000,   category |-> NullStr,                   source |-> "import"],
    [date |-> Date(2025, 3, 5),  amount |-> -12000,   category |-> NullStr,                   source |-> "import"] >>

\* The sample budgets of seed_all: the name of the category, amount in cents
SAMPLE_BUDGETS == <<
    [category |-> "Software & SaaS",         amount |-> 200000],
    [category |-> "Cloud Infrastructure",    amount |-> 300000],
    [category |-> "Marketing & Advertising", amount |-> 1000000],
    [category |-> "Travel & Transportation", amount |-> 1500000],
    [category |-> "Meals & Entertainment",   amount |-> 80000] >>

SAMPLE_ACCOUNTS == <<"Business Checking", "Business Credit Card">>

SAMPLE_REPORTS == <<"2025 Q1 Tax Summary">>

\* The id of the next row inserted into a table
NextRowId(stored) ==
    IF stored = <<>> THEN 1 ELSE 1 + Max({stored[k].id : k \in 1..Len(stored)})

RECURSIVE WithNamed(_, _)
\* db.add_all of rows that carry a name, then db.commit()
WithNamed(stored, names) ==
    IF names = <<>> THEN stored
    ELSE LET before == WithNamed(stored, SubSeq(names, 1, Len(names) - 1))
         IN  Append(before, [id |-> NextRowId(before), name |-> names[Len(names)]])

RECURSIVE WithTransactions(_, _, _)
\* db.add_all(transactions), then db.commit(); cat_map maps the names of the
\* categories just inserted to their ids
WithTransactions(stored, samples, c) ==
    IF samples = <<>> THEN stored
    ELSE LET before == WithTransactions(stored, SubSeq(samples, 1, Len(samples) - 1), c)
             s == samples[Len(samples)]
         IN  Append(before, NewTransaction(before, s.date, s.amount,
                                CategoryByName(c, s.category), s.source))

RECURSIVE WithBudgets(_, _, _)
\* db.add_all(budgets), then db.commit()
WithBudgets(stored, samples, c) ==
    IF samples = <<>> THEN stored
    ELSE LET before == WithBudgets(stored, SubSeq(samples, 1, Len(samples) - 1), c)
             s == samples[Len(samples)]
         IN  Append(before, [id |-> NextBudgetId(before),
                             category_id |-> CategoryByName(c, s.category),
                             amount |-> s.amount])

\* seed_all: if db.query(Category).count() > 0: return
AlreadySeeded(c) == Cardinality(DOMAIN c) > 0

\* lifespan: Base.metadata.create_all, then seed_all(db)
Startup ==
    /\ req' = [kind |-> "startup"]
    /\ prev' = None
    /\ IF AlreadySeeded(cats)
       THEN /\ resp' = [kind |-> "startup", status |-> 200, seeded |-> FALSE]
            /\ UNCHANGED <<cats, txns, budgets, accounts, reports>>
       ELSE /\ resp' = [kind |-> "startup", status |-> 200, seeded |-> TRUE]
            /\ cats' = SeededCategories
            /\ accounts' = WithNamed(accounts, SAMPLE_ACCOUNTS)
            /\ txns' = WithTransactions(txns, SAMPLE_TRANSACTIONS, SeededCategories)
            /\ budgets' = WithBudgets(budgets, SAMPLE_BUDGETS, SeededCategories)
            /\ reports' = WithNamed(reports, SAMPLE_REPORTS)
    /\ UNCHANGED today

(***************************************************************************)
(* The startup's specification: the application is started on a new        *)
(* database and started again; in between, the first budget, the first     *)
(* category and the first transaction are deleted through their endpoints  *)
(***************************************************************************)

MaxSeedRuns == 2

InitSeed ==
    /\ cats = <<>>
    /\ txns = <<>>
    /\ today = StartDate
    /\ req = None
    /\ resp = None
    /\ prev = None
    /\ budgets = <<>>
    /\ accounts = <<>>
    /\ reports = <<>>

SeedStartup ==
    /\ AlreadySeeded(cats) \/ Len(reports) < MaxSeedRuns
    /\ Startup

SeedDeleteBudget ==
    /\ budgets # <<>>
    /\ DeleteBudget(budgets[1].id)

SeedDeleteCategory ==
    /\ DOMAIN cats # {}
    /\ DeleteCategory(Min(DOMAIN cats))

SeedDeleteTransaction ==
    /\ txns # <<>>
    /\ DeleteTransaction(txns[1].id)

NextSeed ==
    SeedStartup \/ SeedDeleteBudget \/ SeedDeleteCategory \/ SeedDeleteTransaction

SpecSeed == InitSeed /\ [][NextSeed]_vars

(***************************************************************************)
(* Startup properties                                                      *)
(***************************************************************************)

\* Some table holds a row
SomeTableHoldsRow ==
    \/ DOMAIN cats # {}
    \/ txns # <<>>
    \/ budgets # <<>>
    \/ accounts # <<>>
    \/ reports # <<>>

\* C27: seed_all, called on a database in which any of the category,
\* account, transaction, budget or report tables holds a row, inserts
\* nothing, so startups never duplicate the sample rows
C27_SeedOnlyWhenTablesEmpty ==
    [][(req'.kind = "startup" /\ SomeTableHoldsRow)
          => UNCHANGED <<cats, txns, budgets, accounts, reports>>]_vars

\* C27, with categories stored: a startup on a database that holds a
\* category inserts nothing
C27_SeedOnlyWhenNoCategory ==
    [][(req'.kind = "startup" /\ DOMAIN cats # {})
          => UNCHANGED <<cats, txns, budgets, accounts, reports>>]_vars

====
